---- MODULE Spec2Model ----
(***************************************************************************)
(* Sheriff-auction PDF pipeline: segmentation of a gazette into auction    *)
(* records, partition of the records into batches, parallel dispatch of    *)
(* the batches to the batch worker, and the sequential handlers.           *)
(*                                                                         *)
(* Text is modelled at paragraph granularity: a document is a sequence of  *)
(* paragraphs, and a paragraph is [m |-> how it begins, k |-> the case     *)
(* number it carries].  The regular expressions of the source are modelled *)
(* by the set of paragraph openings each of them matches.                  *)
(***************************************************************************)
EXTENDS Bags, FiniteSets, Integers, Sequences, TLC

(***************************************************************************)
(* Bounds of the exploration (not program constants).                      *)
(***************************************************************************)
MaxAuctionCount == 12      \* record counts 0..MaxAuctionCount for the partition arithmetic
MaxBatchSize == 5          \* batch sizes 1..MaxBatchSize for the partition arithmetic
MaxSmallRecords == 6       \* records of the documents that take the sequential path
MaxBatches == 6            \* batches of the largest document dispatched
MaxBatchRecords == 3       \* records of the batches whose record loop is stepped through
MaxTextLen == 3            \* paragraphs of the texts whose segmentation is explored
MaxStagedBatches == 3      \* batches of the largest document that is staged

(***************************************************************************)
(* Program constants.                                                      *)
(***************************************************************************)
BATCH_SIZE == 50           \* auctions per batch
MAX_WORKERS == 5           \* ThreadPoolExecutor(max_workers=5)
SEQUENTIAL_LIMIT == 50     \* if auction_count <= 50: sequential
AUCTION_BATCH_SIZE == 50   \* slice of the sequential handler's record loop
MAX_AUCTIONS_PER_RUN == 50 \* process.py: auctions[:MAX_AUCTIONS_PER_RUN]
RECEIVE_BATCH_SIZE == 25   \* webhook-receive-v2: BATCH_SIZE = 25

Min(a, b) == IF a < b THEN a ELSE b

(***************************************************************************)
(* Batch partition arithmetic of process_pdf_with_parallel_batches.        *)
(***************************************************************************)
\* num_batches with a floor instead of the ceiling division
num_batches_floor(count, size) == count \div size

\* num_batches = (auction_count + BATCH_SIZE - 1) // BATCH_SIZE
num_batches(count, size) == (count + size - 1) \div size

\* one entry of batch_requests: start_idx = (batch_num - 1) * BATCH_SIZE,
\* end_idx = min(batch_num * BATCH_SIZE, auction_count),
\* start_auction = start_idx + 1, end_auction = end_idx
batch_request(batch_num, count, size, existing) ==
    [batch_number |-> batch_num,
     start_auction |-> (batch_num - 1) * size + 1,
     end_auction |-> Min(batch_num * size, count),
     existing_case_numbers |-> existing]

\* the loop "for batch_num in range(1, num_batches + 1)"
make_batch_requests(count, size, existing) ==
    [batch_num \in 1..num_batches(count, size) |->
        batch_request(batch_num, count, size, existing)]

(***************************************************************************)
(* Text at paragraph granularity.  A paragraph opens in one of these ways: *)
(*   plain     "Case No: 1234/2024 ..."                                    *)
(*   prefixed  "Case No: D5071/2024 ..."   (letter prefix)                 *)
(*   noslash   "Case No: 1234 ..."         (no "/year" part)               *)
(*   text      text with no "Case No:" marker                              *)
(*   boiler    a boilerplate line (masthead, page footer, banner)          *)
(*   escaped   "Case No:\s\d/\d" text holding the backslashes literally     *)
(*   mangled   "CaseNo:12342024..." a marker whose blanks and "/" are gone *)
(* A stored document is run-length encoded: a sequence of runs             *)
(* [m |-> opening, n |-> number of paragraphs]; paragraph i of the         *)
(* expansion carries the case number i.                                    *)
(***************************************************************************)
Openings == {"plain", "prefixed", "noslash", "text", "boiler", "escaped", "mangled"}

RECURSIVE RunsLen(_)
RunsLen(runs) == IF runs = <<>> THEN 0 ELSE Head(runs).n + RunsLen(Tail(runs))

RECURSIVE OpeningAt(_, _)
OpeningAt(runs, i) ==
    IF i <= Head(runs).n THEN Head(runs).m ELSE OpeningAt(Tail(runs), i - Head(runs).n)

\* the page text pdfplumber extracts from the stored document
raw_text(runs) == [i \in 1..RunsLen(runs) |-> [m |-> OpeningAt(runs, i), k |-> i]]

\* clean_text with the patterns as written in analyze_pdf_for_batching,
\* extract_auctions_from_pdf and process_single_pdf: boilerplate lines and
\* non-printable characters are removed, white space is collapsed; the markers
\* are left as they are
clean_text(text) == SelectSeq(text, LAMBDA p : p.m # "boiler")

\* clean_text of get_existing_case_numbers_from_pdf, whose raw-string patterns
\* are written with doubled backslashes.  Its last pattern r"[^\\x20-\\x7E]" is
\* the negated class {"\", "x", "2", "0".."\", "7", "E"}: it deletes every
\* character outside 0-9 : ; < = > ? @ A-Z [ \ (and a-z under IGNORECASE), so
\* every blank and every "/" of a marker is deleted.
clean_text_escaped(text) ==
    LET kept == SelectSeq(text, LAMBDA p : p.m # "boiler")
    IN  [i \in 1..Len(kept) |->
            [m |-> IF kept[i].m \in {"plain", "prefixed", "noslash", "escaped", "mangled"}
                   THEN "mangled" ELSE kept[i].m,
             k |-> kept[i].k]]

\* the openings matched by r'(?=(Case No:\s*[A-Z]*\d+/\d+))' : optional letters, digits, "/", digits
\* (analyze_pdf_for_batching, webhook-process split_into_auctions)
MatchesPrefixed == {"plain", "prefixed"}

\* r'(?=(Case No:\s*\d+(?:/\d+)?))' : digits right after the blank, "/digits"
\* optional (process-auction-batch split_into_auctions)
MatchesPlain == {"plain", "noslash"}

\* r'Case No:\\s*([A-Z]*\\d+/\\d+)' : "Case No:", a literal backslash, "s"*,
\* letters, a literal backslash, "d"+, "/", a literal backslash, "d"+ .  It
\* matches only text that holds those backslashes, and needs the blank of
\* "Case No:" and the "/" to be in the text.
MatchesEscaped == {"escaped"}

\* pattern.finditer(text): the positions of text whose paragraph opens with
\* one of the openings the pattern matches, in text order
MatchPositions(text, pattern) ==
    LET idx == [i \in 1..Len(text) |-> i]
    IN  SelectSeq(idx, LAMBDA i : text[i].m \in pattern)

\* split_into_auctions: a block is [first, last] (positions of text) and
\* dup = TRUE when parts[i] + parts[i + 1] puts the captured marker in front of
\* the segment that already starts with it.  With at most one match the whole
\* (non-empty) text is one block; otherwise block j runs from match j to just
\* before match j + 1, and the text before the first match is in no block.
split_into_auctions(text, pattern) ==
    LET matches == MatchPositions(text, pattern)
        n == Len(matches)
    IN  IF n <= 1
        THEN IF Len(text) > 0
             THEN <<[first |-> 1, last |-> Len(text), dup |-> FALSE]>>
             ELSE <<>>
        ELSE [j \in 1..n |->
                [first |-> matches[j],
                 last |-> IF j < n THEN matches[j + 1] - 1 ELSE Len(text),
                 dup |-> TRUE]]

\* the case number the Extractor reads from a block: that of its first paragraph
BlockKey(text, blk) == text[blk.first].k

\* a Python slice seq[lo - 1 : hi] with lo >= 1, as 1-based positions
PySlice(seq, lo, hi) == SubSeq(seq, lo, Min(hi, Len(seq)))

(***************************************************************************)
(* Rows and collaborators.  A row is what a handler posts to the Sink:     *)
(* [kind |-> "auction", n |-> case number] for an extracted record, or     *)
(* [kind |-> "error", n |-> i] for the placeholder "ERROR_<i>".  The       *)
(* Extractor fails on the blocks whose case number is in failx; the Sink   *)
(* refuses the auction rows whose case number is in failu, and takes the   *)
(* placeholder rows iff takes_err.                                         *)
(***************************************************************************)
AuctionRow(k) == [kind |-> "auction", n |-> k]
ErrorRow(i) == [kind |-> "error", n |-> i]

\* the Sink's answer to one POST /rest/v1/auctions: 200/201 or not
sink_accepts(row, failu, takes_err) ==
    IF row.kind = "error" THEN takes_err ELSE row.n \notin failu

\* the bag of the elements of a sequence
SeqToBag(seq) ==
    LET elems == {seq[i] : i \in 1..Len(seq)}
    IN  [e \in elems |-> Cardinality({i \in 1..Len(seq) : seq[i] = e})]

(***************************************************************************)
(* The batch worker, process-auction-batch.py.                             *)
(***************************************************************************)
\* the worker's cleaned text and its segmentation of the whole document
worker_text(runs) == clean_text(raw_text(runs))
worker_all_auctions(runs) == split_into_auctions(worker_text(runs), MatchesPlain)

\* extract_auctions_from_pdf: all_auctions[start_auction-1:end_auction]; a
\* failed download is caught and gives []
extract_auctions_from_pdf(runs, present, start_auction, end_auction) ==
    IF present
    THEN PySlice(worker_all_auctions(runs), start_auction, end_auction)
    ELSE <<>>

\* one iteration of the loop of process_auctions_with_openai (i is the
\* 1-based position in the batch): the extracted row, or on any exception the
\* placeholder ERROR_<i>
process_one_auction(text, auction, i, failx) ==
    IF BlockKey(text, auction) \in failx THEN ErrorRow(i)
    ELSE AuctionRow(BlockKey(text, auction))

\* process_auctions_with_openai: one entry per auction, in order
process_auctions_with_openai(text, auctions, failx) ==
    [i \in 1..Len(auctions) |-> process_one_auction(text, auctions[i], i, failx)]

\* one iteration of the loop of upload_to_supabase: the entry is posted and
\* the upload result tells success (200/201) or error
upload_one(row, failu, takes_err) ==
    [status |-> IF sink_accepts(row, failu, takes_err) THEN "success" ELSE "error",
     row |-> row]

\* upload_to_supabase: every processed entry is posted, placeholders included;
\* one upload result per entry, in order
upload_to_supabase(processed, failu, takes_err) ==
    [i \in 1..Len(processed) |-> upload_one(processed[i], failu, takes_err)]

\* next_auction of a loop that is left at the first failure
next_auction_abort(i, n, failed) == IF failed THEN n + 1 ELSE i + 1

\* the position the record loops go on with after position i of n, whether or
\* not the record at i failed: the except branch is inside the for loop
next_auction(i, n, failed) == i + 1

\* the rows a sequence of upload results added to the Sink
UploadedRows(upload_results) ==
    LET ok == SelectSeq(upload_results, LAMBDA u : u.status = "success")
    IN  [i \in 1..Len(ok) |-> ok[i].row]

\* do_POST of the worker for one batch payload: the HTTP answer, the rows it
\* wrote, and the blocks first_block..last_block (positions in
\* worker_all_auctions) it worked on
worker_do_POST(runs, present, req, failx, failu, takes_err) ==
    LET auctions == extract_auctions_from_pdf(runs, present,
                                              req.start_auction, req.end_auction)
        processed == process_auctions_with_openai(worker_text(runs), auctions, failx)
        upload_results == upload_to_supabase(processed, failu, takes_err)
    IN  IF auctions = <<>>
        THEN [code |-> 400, status |-> "error", batch_number |-> req.batch_number,
              auctions_processed |-> 0, auctions_uploaded |-> 0,
              written |-> <<>>, first_block |-> req.start_auction,
              last_block |-> req.start_auction - 1]
        ELSE [code |-> 200, status |-> "success", batch_number |-> req.batch_number,
              auctions_processed |-> Len(processed),
              auctions_uploaded |-> Len(UploadedRows(upload_results)),
              written |-> UploadedRows(upload_results),
              first_block |-> req.start_auction,
              last_block |-> req.start_auction + Len(auctions) - 1]

(***************************************************************************)
(* The sequential handler, webhook-process.py process_single_pdf.          *)
(***************************************************************************)
\* the state of the record loop: uploads counted, quota units used, rows
\* written to the Sink, the case numbers sent to the Extractor, in order, and
\* the case numbers whose failure was printed, in order
LoopStart == [processed_count |-> 0, total_tokens_used |-> 0,
              written |-> <<>>, calls |-> <<>>, failed |-> <<>>]

\* one pass of the loop body for the block with case number key: the Extractor
\* call, then on success the usage is added and the row is posted; any
\* exception is caught and the loop continues with the next block.  A
\* successful call is counted as one quota unit.
single_pdf_record(a, key, failx, failu, takes_err) ==
    IF key \in failx
    THEN [a EXCEPT !.calls = Append(@, key),
                     !.failed = Append(@, key)]
    ELSE IF sink_accepts(AuctionRow(key), failu, takes_err)
         THEN [a EXCEPT !.calls = Append(@, key),
                          !.total_tokens_used = @ + 1,
                          !.processed_count = @ + 1,
                          !.written = Append(@, AuctionRow(key))]
         ELSE [a EXCEPT !.calls = Append(@, key),
                          !.total_tokens_used = @ + 1,
                          !.failed = Append(@, key)]

\* the nested loops over auction_batches (slices of AUCTION_BATCH_SIZE) and the
\* auctions of each: "if total_tokens_used > max_tokens: break" is evaluated
\* after the last auction of every slice
RECURSIVE single_pdf_loop(_, _, _, _, _, _, _, _, _)
single_pdf_loop(text, blocks, i, a, slice, limit, failx, failu, takes_err) ==
    IF i > Len(blocks) THEN a
    ELSE LET next == single_pdf_record(a, BlockKey(text, blocks[i]),
                                       failx, failu, takes_err)
         IN  IF next.total_tokens_used > limit /\ i % slice = 0
             THEN next
             ELSE single_pdf_loop(text, blocks, i + 1, next, slice, limit,
                                  failx, failu, takes_err)

(***************************************************************************)
(* The coordinator, webhook-coordinator.py (thread pool) and                *)
(* batch-coordinator.py (asyncio).                                         *)
(***************************************************************************)
\* the analysis without its "except Exception": a failed download goes unnoticed
analyze_pdf_for_batching_unguarded(runs, present) ==
    [status |-> "success",
     auction_count |-> Len(MatchPositions(clean_text(raw_text(runs)), MatchesPrefixed))]

\* analyze_pdf_for_batching: the download, the cleaning, and the count of the
\* record-start markers; any exception gives status error
analyze_pdf_for_batching(runs, present) ==
    IF present
    THEN [status |-> "success",
          auction_count |-> Len(MatchPositions(clean_text(raw_text(runs)), MatchesPrefixed))]
    ELSE [status |-> "error", auction_count |-> 0]

\* the case numbers of the auction rows of the Sink
SinkKeys(rows) == {row.n : row \in {r \in BagToSet(rows) : r.kind = "auction"}}

\* get_existing_case_numbers_from_pdf: case_pattern.findall on the cleaned
\* text; with no match it returns set() before any request; otherwise one GET
\* with case_number=in.(<the matches>) whose 200 answer is the matches the Sink
\* holds.  sent tells whether the GET was made and keys what it was keyed on.
\* get_existing_case_numbers_from_pdf of a handler whose try block does not
\* catch: a failure of the lookup is raised to the caller
get_existing_case_numbers_uncaught(runs, present, rows, fault) ==
    [sent |-> FALSE, keys |-> {}, existing |-> {}, raised |-> fault # "none"]

\* fault is what goes wrong with the lookup: "exception" (the download or any
\* other step raises: "except Exception: return set()"), "credentials"
\* (SUPABASE_URL / SUPABASE_KEY missing: return set()), "non200" (the GET is
\* answered with another status: return set()), or "none".  raised tells
\* whether an exception leaves the function.
get_existing_case_numbers_from_pdf(runs, present, rows, fault) ==
    LET text == clean_text_escaped(raw_text(runs))
        found == MatchPositions(text, MatchesEscaped)
        pdf_case_numbers == {text[found[i]].k : i \in 1..Len(found)}
    IN  IF ~present \/ fault = "exception" \/ pdf_case_numbers = {}
        THEN [sent |-> FALSE, keys |-> {}, existing |-> {}, raised |-> FALSE]
        ELSE IF fault = "credentials"
        THEN [sent |-> FALSE, keys |-> pdf_case_numbers, existing |-> {},
              raised |-> FALSE]
        ELSE IF fault = "non200"
        THEN [sent |-> TRUE, keys |-> pdf_case_numbers, existing |-> {},
              raised |-> FALSE]
        ELSE [sent |-> TRUE, keys |-> pdf_case_numbers,
              existing |-> pdf_case_numbers \cap SinkKeys(rows), raised |-> FALSE]

\* process_single_pdf of webhook-process.py
process_single_pdf(runs, present, enable, limit, slice, failx, failu, takes_err) ==
    LET text == clean_text(raw_text(runs))
        auctions == split_into_auctions(text, MatchesPrefixed)
        acc == IF enable
               THEN single_pdf_loop(text, auctions, 1, LoopStart, slice, limit,
                                    failx, failu, takes_err)
               ELSE LoopStart
    IN  IF present
        THEN [status |-> "success", auctions_found |-> Len(auctions),
              auctions_processed |-> acc.processed_count,
              total_tokens_used |-> acc.total_tokens_used,
              written |-> acc.written, calls |-> acc.calls]
        ELSE [status |-> "error", auctions_found |-> 0, auctions_processed |-> 0,
              total_tokens_used |-> 0, written |-> <<>>, calls |-> <<>>]

\* what process_single_batch / process_auction_batch returns for a worker answer:
\* the answer itself on 200, an error entry otherwise
batch_result_of(resp) ==
    IF resp.code = 200
    THEN [status |-> resp.status, batch_number |-> resp.batch_number,
          auctions_processed |-> resp.auctions_processed,
          auctions_uploaded |-> resp.auctions_uploaded, cause |-> "response"]
    ELSE [status |-> "error", batch_number |-> resp.batch_number,
          auctions_processed |-> 0, auctions_uploaded |-> 0, cause |-> "http_error"]

\* the error entries: they carry no auctions_processed, which the aggregation
\* reads as r.get('auctions_processed', 0)
error_result(batch_num, why) ==
    [status |-> "error", batch_number |-> batch_num,
     auctions_processed |-> 0, auctions_uploaded |-> 0, cause |-> why]

NoResult == [status |-> "none"]

\* what is remembered of a worker run: its answer without the rows
worker_served(resp) ==
    [status |-> resp.status, code |-> resp.code,
     auctions_processed |-> resp.auctions_processed,
     auctions_uploaded |-> resp.auctions_uploaded,
     first_block |-> resp.first_block, last_block |-> resp.last_block]

RECURSIVE SumProcessed(_)
SumProcessed(results) ==
    IF results = <<>> THEN 0
    ELSE Head(results).auctions_processed + SumProcessed(Tail(results))

\* the aggregation of process_pdf_with_parallel_batches.  The thread-pool
\* coordinator reports success iff some batch succeeded and sums
\* auctions_processed over all entries; the asyncio coordinator always reports
\* success and sums over the successful entries.
aggregate(v, count, results) ==
    LET good == SelectSeq(results, LAMBDA r : r.status = "success")
    IN  [status |-> IF v = "threadpool" /\ Len(good) = 0 THEN "error" ELSE "success",
         method |-> "parallel",
         auction_count |-> count,
         auctions_processed |-> IF v = "threadpool" THEN SumProcessed(results)
                                ELSE SumProcessed(good),
         batches_total |-> Len(results),
         batches_successful |-> Len(good)]

VARIABLES
    pc,                \* position of the handler being run
    variant,           \* "threadpool" (webhook-coordinator) or "asyncio" (batch-coordinator)
    pdf,               \* the stored document, run-length encoded
    in_intake,         \* the document is present under unprocessed/
    enable_processing, \* ENABLE_PROCESSING is 'true'
    max_tokens,        \* MAX_OPENAI_TOKENS_PER_RUN
    fail_extract,      \* case numbers on which the Extractor fails
    fail_upload,       \* case numbers whose row the Sink refuses
    takes_err,         \* the Sink takes ERROR_<i> placeholder rows
    fault_batches,     \* the batches whose transport is faulty in this run
    fault_kind,        \* how: "late_answer", "request_timeout", "exception", "future_timeout"
    sink,              \* the rows of the Sink, a bag
    auction_count,     \* number of records the coordinator counted
    batch_size,        \* the local BATCH_SIZE of the partition
    batch_requests,    \* the prepared batch requests, in batch order
    lookup,            \* the existing-keys lookup that was made
    bstate,            \* per batch: "queued", "running", "finished"
    thread_result,     \* per batch: what its thread / task returned
    served,            \* per batch: the worker's answer, once the worker has run
    batch_results,     \* the entries the coordinator collected, in order
    result,            \* the result reported for the document
    sink0,             \* the rows the Sink held when the run began
    lookup_fault,      \* what goes wrong with the existing-keys lookup, or "none"
    batch_auctions,    \* record loop: the blocks of the batch being worked on
    loop_i,            \* record loop: 1-based position of the next block
    processed_auctions,\* record loop: the worker's entries so far
    upload_results,    \* record loop: the worker's upload results so far
    loop_state,        \* record loop: the sequential handler's counters and log
    archived,          \* the archive locations that hold a copy of the document
    storage_fault,     \* the storage call that fails in this run, or "none"
    staging,           \* the batch ids stored under auction-batches/
    secret_ok          \* the request's 'secret' equals WEBHOOK_SECRET

vars == <<pc, variant, pdf, in_intake, enable_processing, max_tokens, fail_extract,
          fail_upload, takes_err, fault_batches, fault_kind, sink, auction_count, batch_size,
          batch_requests, lookup, bstate, thread_result, served, batch_results,
          result, sink0, lookup_fault, batch_auctions, loop_i, processed_auctions, upload_results,
          loop_state, archived, storage_fault, staging, secret_ok>>

\* the archiving of the document
archVars == <<archived, storage_fault>>

\* the staging area and the authorisation of the request
stageVars == <<staging, secret_ok>>

\* the record loop of a handler run step by step
loopVars == <<batch_auctions, loop_i, processed_auctions, upload_results, loop_state>>

\* what the coordinator's steps leave alone
envVars == <<variant, pdf, in_intake, enable_processing, max_tokens, fail_extract,
             fail_upload, takes_err, fault_batches, fault_kind, batch_size, sink0, lookup_fault,
             loopVars, archVars, stageVars>>

\* what the steps of a record loop leave alone
coordVars == <<variant, pdf, in_intake, enable_processing, max_tokens, fail_extract,
               fail_upload, takes_err, fault_batches, fault_kind, batch_size, sink0, lookup_fault,
               auction_count, lookup, bstate, thread_result, served, batch_results,
               archVars, stageVars>>

\* coordVars without auction_count
coordVarsButCount == <<variant, pdf, in_intake, enable_processing, max_tokens,
                       fail_extract, fail_upload, takes_err, fault_batches, fault_kind,
                       batch_size, sink0, lookup_fault, lookup, bstate, thread_result,
                       served, batch_results, archVars, stageVars>>

Batches == 1..Len(batch_requests)

InFlight == {b \in Batches : bstate[b] = "running"}

NoLookup == [sent |-> FALSE, keys |-> {}, existing |-> {}, raised |-> FALSE]

(***************************************************************************)
(* The documents and collaborator behaviours explored.                     *)
(***************************************************************************)
Plain(n) == [m |-> "plain", n |-> n]

\* documents that take the sequential path
SmallPdfs ==
    {<<>>} \cup {<<Plain(j)>> : j \in 1..MaxSmallRecords}
    \cup {<<Plain(SEQUENTIAL_LIMIT)>>}

\* documents of two batches: all plain; the last marker letter-prefixed; a
\* preamble, a boilerplate line, a line that spells the marker with
\* backslashes, and a last marker without "/year"
TwoBatchPdfs ==
    {<<Plain(BATCH_SIZE + 1)>>,
     <<Plain(BATCH_SIZE), [m |-> "prefixed", n |-> 1]>>,
     <<[m |-> "text", n |-> 1], [m |-> "boiler", n |-> 1],
       [m |-> "escaped", n |-> 1],
       Plain(BATCH_SIZE + 1), [m |-> "noslash", n |-> 1]>>}

\* documents of 3..MaxBatches batches; the transport faults are explored on
\* the one of three batches
ManyBatchPdfs ==
    {<<Plain(BATCH_SIZE * (j - 1) + 1)>> : j \in 3..MaxBatches}

\* the Extractor / Sink failures explored for a document: none, the first
\* record, or every record of the second batch
FailChoices(runs) ==
    {{}, {1}, {k \in 1..RunsLen(runs) : k > BATCH_SIZE /\ k <= 2 * BATCH_SIZE}}

\* what the Sink holds before the run: nothing, or the first record and the
\* first record of the second batch
SinkChoices(runs) ==
    {EmptyBag,
     SetToBag({AuctionRow(k) : k \in {1, BATCH_SIZE + 1} \cap (1..RunsLen(runs))})}

\* the transport faults explored: none, or one kind of fault on the first
\* batch, on the second batch, or on every batch
FaultKinds(v) ==
    {"late_answer", "request_timeout", "exception"}
    \cup (IF v = "threadpool" THEN {"future_timeout"} ELSE {})

FaultSets == {{1}, {2}, 1..(MaxBatches + 1)}

\* no archiving is under way: no archive location holds the document
NoArchive ==
    /\ archived = {}
    /\ storage_fault = "none"

\* nothing is staged and the request carries the configured secret
NoStaging ==
    /\ staging = {}
    /\ secret_ok = TRUE

\* no record loop is being stepped through
NoLoop ==
    /\ batch_auctions = <<>>
    /\ loop_i = 1
    /\ processed_auctions = <<>>
    /\ upload_results = <<>>
    /\ loop_state = LoopStart

NoFaults ==
    /\ fault_batches = {}
    /\ fault_kind = "none"
    /\ lookup_fault = "none"

\* the lookup failures explored
LookupFaults == {"exception", "credentials", "non200"}

SomeFault ==
    /\ fault_batches \in FaultSets
    /\ fault_kind \in FaultKinds(variant)
    /\ lookup_fault = "none"

\* the lookup fails, every POST is answered
LookupFault ==
    /\ fault_batches = {}
    /\ fault_kind = "none"
    /\ lookup_fault \in LookupFaults

NoCollaboratorFailure ==
    /\ fail_extract = {}
    /\ fail_upload = {}
    /\ takes_err = FALSE
    /\ sink = EmptyBag

InitSmall ==
    /\ pdf \in SmallPdfs
    /\ in_intake \in BOOLEAN
    /\ enable_processing \in BOOLEAN
    /\ max_tokens \in {1, 100000}
    /\ fail_extract \in FailChoices(pdf)
    /\ fail_upload \in {{}, {1}, {2}}
    /\ takes_err = FALSE
    /\ sink \in SinkChoices(pdf)
    /\ NoFaults

InitTwoBatch ==
    /\ pdf \in TwoBatchPdfs
    /\ in_intake = TRUE
    /\ enable_processing = TRUE
    /\ max_tokens = 100000
    /\ \/ /\ fail_extract \in FailChoices(pdf)
          /\ fail_upload \in {{}, {2}}
          /\ takes_err \in BOOLEAN
          /\ sink \in SinkChoices(pdf)
          /\ NoFaults
       \/ /\ NoCollaboratorFailure
          /\ SomeFault
       \/ /\ fail_extract = {}
          /\ fail_upload = {}
          /\ takes_err = FALSE
          /\ sink \in SinkChoices(pdf)
          /\ LookupFault

InitManyBatch ==
    /\ pdf \in ManyBatchPdfs
    /\ in_intake = TRUE
    /\ enable_processing = TRUE
    /\ max_tokens = 100000
    /\ NoCollaboratorFailure
    /\ \/ NoFaults
       \/ SomeFault /\ RunsLen(pdf) <= 2 * BATCH_SIZE + 1

\* a document of more than one batch that is not under unprocessed/
InitAbsent ==
    /\ pdf \in TwoBatchPdfs
    /\ in_intake = FALSE
    /\ enable_processing = TRUE
    /\ max_tokens = 100000
    /\ NoCollaboratorFailure
    /\ NoFaults

Init ==
    /\ pc = "received"
    /\ variant \in {"threadpool", "asyncio"}
    /\ InitSmall \/ InitTwoBatch \/ InitManyBatch \/ InitAbsent
    /\ auction_count = 0
    /\ batch_size = BATCH_SIZE
    /\ batch_requests = <<>>
    /\ lookup = NoLookup
    /\ bstate = <<>>
    /\ thread_result = <<>>
    /\ served = <<>>
    /\ batch_results = <<>>
    /\ result = NoResult
    /\ sink0 = sink
    /\ NoLoop
    /\ NoArchive
    /\ NoStaging

(***************************************************************************)
(* do_POST of the coordinator for one document.                            *)
(***************************************************************************)
\* analysis_result = self.analyze_pdf_for_batching(pdf_key, processing_id)
Analyze ==
    /\ pc = "received"
    /\ LET a == analyze_pdf_for_batching(pdf, in_intake)
       IN  IF a.status = "error"
           THEN /\ result' = [status |-> "error", method |-> "analysis"]
                /\ pc' = "done"
                /\ UNCHANGED auction_count
           ELSE /\ auction_count' = a.auction_count
                /\ pc' = "analyzed"
                /\ UNCHANGED result
    /\ UNCHANGED <<envVars, sink, batch_requests, lookup, bstate,
                   thread_result, served, batch_results>>

\* the strategy test with "<" for "<="
chooses_sequential_strict(count) == count < SEQUENTIAL_LIMIT

\* "if auction_count <= 50:" process_pdf_sequentially, "else:"
\* process_pdf_with_parallel_batches
chooses_sequential(count) == count <= SEQUENTIAL_LIMIT

\* auction_count <= 50: process_pdf_sequentially, i.e. one POST to
\* webhook-process, whose process_single_pdf runs the record loop
Sequential ==
    /\ pc = "analyzed"
    /\ chooses_sequential(auction_count)
    /\ LET r == process_single_pdf(pdf, in_intake, enable_processing, max_tokens,
                                   AUCTION_BATCH_SIZE, fail_extract, fail_upload,
                                   takes_err)
       IN  /\ result' = [status |-> r.status, method |-> "sequential",
                         auctions_found |-> r.auctions_found,
                         auctions_processed |-> r.auctions_processed,
                         total_tokens_used |-> r.total_tokens_used,
                         calls |-> r.calls]
           /\ sink' = sink (+) SeqToBag(r.written)
    /\ pc' = "done"
    /\ UNCHANGED <<envVars, auction_count, batch_requests, lookup,
                   bstate, thread_result, served, batch_results>>

\* auction_count > 50: process_pdf_with_parallel_batches up to the submission
\* of the batches.  Only the thread-pool coordinator makes the lookup.  An
\* exception that reaches the function's own "except Exception" ends it with
\* the result {'status': 'error', ...}.
PrepareBatches ==
    /\ pc = "analyzed"
    /\ ~chooses_sequential(auction_count)
    /\ lookup' = IF variant = "threadpool"
                 THEN get_existing_case_numbers_from_pdf(pdf, in_intake, sink,
                                                         lookup_fault)
                 ELSE NoLookup
    /\ IF lookup'.raised
       THEN /\ result' = [status |-> "error", method |-> "parallel"]
            /\ pc' = "done"
            /\ UNCHANGED <<batch_requests, bstate, thread_result, served>>
       ELSE /\ batch_requests' = make_batch_requests(auction_count, batch_size,
                                                     lookup'.existing)
            /\ bstate' = [b \in 1..Len(batch_requests') |-> "queued"]
            /\ thread_result' = [b \in 1..Len(batch_requests') |-> NoResult]
            /\ served' = [b \in 1..Len(batch_requests') |-> NoResult]
            /\ pc' = "dispatching"
            /\ UNCHANGED result
    /\ UNCHANGED <<envVars, sink, auction_count, batch_results>>

\* pool_has_free_worker of a pool whose threads never take a queued work item
pool_has_free_worker_never(v, running) == Cardinality(running) < 0

\* a worker thread of ThreadPoolExecutor(max_workers=5) is free for the next
\* queued work item
pool_has_free_worker(v, running) == Cardinality(running) < MAX_WORKERS

\* asyncio.gather(*batch_tasks): every task is started, whatever is running
gather_starts_all(v, running) == TRUE

\* whether a queued batch may start now
may_start(v, running) ==
    IF v = "threadpool" THEN pool_has_free_worker(v, running)
    ELSE gather_starts_all(v, running)

\* a queued batch starts: the POST to process-auction-batch is in flight.
\* Work items and tasks start in submission order.
StartBatch(b) ==
    /\ pc = "dispatching"
    /\ bstate[b] = "queued"
    /\ \A a \in 1..(b - 1) : bstate[a] # "queued"
    /\ may_start(variant, InFlight)
    /\ bstate' = [bstate EXCEPT ![b] = "running"]
    /\ UNCHANGED <<pc, envVars, sink, auction_count, batch_requests,
                   lookup, thread_result, served, batch_results, result>>

\* after_attempt of a dispatch that submits a failed batch again
after_attempt_retry(own) == IF own.status = "error" THEN "queued" ELSE "finished"

\* the state of a batch once process_single_batch / process_auction_batch has
\* returned own: the function makes one requests.post / session.post and
\* returns its answer or an error entry; the thread or task is over
after_attempt(own) == "finished"

\* the worker answers the POST: process_single_batch / process_auction_batch
\* returns the answer (200) or an error entry (any other status)
BatchAnswered(b) ==
    /\ pc = "dispatching"
    /\ bstate[b] = "running"
    /\ b \in fault_batches => fault_kind = "future_timeout"
    /\ \E resp \in {worker_do_POST(pdf, in_intake, batch_requests[b],
                                  fail_extract, fail_upload, takes_err)} :
           /\ served' = [served EXCEPT ![b] = worker_served(resp)]
           /\ sink' = sink (+) SeqToBag(resp.written)
           /\ thread_result' = [thread_result EXCEPT ![b] = batch_result_of(resp)]
           /\ bstate' = [bstate EXCEPT ![b] = after_attempt(batch_result_of(resp))]
    /\ UNCHANGED <<pc, envVars, auction_count, batch_requests, lookup,
                   batch_results, result>>

\* the POST runs into its 600 s timeout (requests.Timeout /
\* asyncio.TimeoutError).  The worker has worked through the whole batch by
\* then and its answer comes too late (late_answer), or it has not got to it.
BatchRequestTimeout(b) ==
    /\ pc = "dispatching"
    /\ bstate[b] = "running"
    /\ b \in fault_batches
    /\ fault_kind \in {"late_answer", "request_timeout"}
    /\ IF fault_kind = "late_answer"
       THEN \E resp \in {worker_do_POST(pdf, in_intake, batch_requests[b],
                                        fail_extract, fail_upload, takes_err)} :
               /\ served' = [served EXCEPT ![b] = worker_served(resp)]
               /\ sink' = sink (+) SeqToBag(resp.written)
       ELSE UNCHANGED <<served, sink>>
    /\ thread_result' = [thread_result EXCEPT ![b] = error_result(b, "request_timeout")]
    /\ bstate' = [bstate EXCEPT ![b] = after_attempt(error_result(b, "request_timeout"))]
    /\ UNCHANGED <<pc, envVars, auction_count, batch_requests, lookup,
                   batch_results, result>>

\* the POST raises any other exception (connection refused, reset): the
\* worker is not reached
BatchException(b) ==
    /\ pc = "dispatching"
    /\ bstate[b] = "running"
    /\ b \in fault_batches
    /\ fault_kind = "exception"
    /\ thread_result' = [thread_result EXCEPT ![b] = error_result(b, "exception")]
    /\ bstate' = [bstate EXCEPT ![b] = after_attempt(error_result(b, "exception"))]
    /\ UNCHANGED <<pc, envVars, sink, auction_count, batch_requests, lookup,
                   served, batch_results, result>>

\* record_outcome of a fail-fast collection: a sibling collected after a
\* failed batch is given up as cancelled
record_outcome_failfast(earlier, own) ==
    IF \E i \in 1..Len(earlier) : earlier[i].status = "error"
    THEN error_result(own.batch_number, "cancelled")
    ELSE own

\* the entry recorded for a batch whose thread / task returned own, after the
\* entries earlier of the batches before it: batch_results.append(result);
\* gather(..., return_exceptions=True) likewise hands every task's own result on
record_outcome(earlier, own) == own

\* next_future of a collection in completion order (as_completed): a finished
\* batch that is not collected yet is taken first
next_future_as_completed(results, states) ==
    LET collected == {results[i].batch_number : i \in 1..Len(results)}
        ready == {b \in DOMAIN states : states[b] = "finished" /\ b \notin collected}
    IN  IF ready # {}
        THEN CHOOSE b \in ready : \A c \in ready : c <= b
        ELSE Len(results) + 1

\* "for batch_num, future in futures": the futures are collected in the order
\* of their submission, which is the order of batch_requests, whatever the
\* states of the batches are
next_future(results, states) == Len(results) + 1

\* thread pool: "for batch_num, future in futures: result =
\* future.result(timeout=600)" for a future that is done
CollectResult ==
    /\ pc = "dispatching"
    /\ variant = "threadpool"
    /\ Len(batch_results) < Len(batch_requests)
    /\ LET b == next_future(batch_results, bstate)
       IN  /\ bstate[b] = "finished"
           /\ batch_results' = Append(batch_results,
                                       record_outcome(batch_results, thread_result[b]))
    /\ UNCHANGED <<pc, envVars, sink, auction_count, batch_requests,
                   lookup, bstate, thread_result, served, result>>

\* thread pool: future.result(timeout=600) raises TimeoutError for a future
\* that is not done; the except branch appends an error entry and the loop
\* goes on to the next future.  The batch itself is not cancelled.
FutureTimeout ==
    /\ pc = "dispatching"
    /\ variant = "threadpool"
    /\ Len(batch_results) < Len(batch_requests)
    /\ fault_kind = "future_timeout"
    /\ LET b == next_future(batch_results, bstate)
       IN  /\ b \in fault_batches
           /\ bstate[b] # "finished"
           /\ batch_results' = Append(batch_results, error_result(b, "future_timeout"))
    /\ UNCHANGED <<pc, envVars, sink, auction_count, batch_requests, lookup,
                   bstate, thread_result, served, result>>

\* thread pool: the with-block ends once every future is collected and every
\* worker thread has returned; then the results are aggregated
AggregatePool ==
    /\ pc = "dispatching"
    /\ variant = "threadpool"
    /\ Len(batch_results) = Len(batch_requests)
    /\ \A b \in Batches : bstate[b] = "finished"
    /\ result' = aggregate(variant, auction_count, batch_results)
    /\ pc' = "done"
    /\ UNCHANGED <<envVars, sink, auction_count, batch_requests,
                   lookup, bstate, thread_result, served, batch_results>>

\* asyncio: gather returns the results of all tasks in task order once all
\* are done; then the results are aggregated
AggregateGather ==
    /\ pc = "dispatching"
    /\ variant = "asyncio"
    /\ \A b \in Batches : bstate[b] = "finished"
    /\ batch_results' = [b \in Batches |->
                             record_outcome(SubSeq(thread_result, 1, b - 1),
                                            thread_result[b])]
    /\ result' = aggregate(variant, auction_count, batch_results')
    /\ pc' = "done"
    /\ UNCHANGED <<envVars, sink, auction_count, batch_requests,
                   lookup, bstate, thread_result, served>>

Next ==
    \/ Analyze
    \/ Sequential
    \/ PrepareBatches
    \/ \E b \in Batches : StartBatch(b)
    \/ \E b \in Batches : BatchAnswered(b)
    \/ \E b \in Batches : BatchRequestTimeout(b)
    \/ \E b \in Batches : BatchException(b)
    \/ CollectResult
    \/ FutureTimeout
    \/ AggregatePool
    \/ AggregateGather

Spec == Init /\ [][Next]_vars

\* the same program with its scheduling: the executor's threads and the event
\* loop run whatever is runnable, every POST ends (answer, exception or its
\* timeout), and the coordinator's own thread goes on with its next statement
InitLive ==
    /\ Init
    /\ \/ InitManyBatch
       \/ /\ pdf = <<Plain(BATCH_SIZE + 1)>>
          /\ in_intake
          /\ NoCollaboratorFailure
       \/ /\ pdf = <<Plain(1)>>
          /\ enable_processing
          /\ max_tokens = 100000
          /\ NoCollaboratorFailure

\* the steps of the coordinator's own thread, of the executor handing queued
\* work to free threads, and of the event loop starting tasks
CoordinatorStep ==
    \/ Analyze
    \/ Sequential
    \/ PrepareBatches
    \/ \E b \in Batches : StartBatch(b)
    \/ CollectResult
    \/ FutureTimeout
    \/ AggregatePool
    \/ AggregateGather

\* the end of a POST that is in flight: its answer, its timeout or an exception
PostEnds ==
    \E b \in Batches : BatchAnswered(b) \/ BatchRequestTimeout(b) \/ BatchException(b)

\* Scheduling: the coordinator's thread, the executor and the event loop go
\* on with what is runnable (weak fairness of CoordinatorStep); and every POST
\* in flight ends, requests.post / session.post being given a timeout: over
\* and over, no POST is in flight or one of them ends.  PostEnds is enabled
\* exactly when a batch is running, so this is the weak fairness of PostEnds
\* with its enabling condition written out.
SpecLive ==
    /\ InitLive
    /\ [][Next]_vars
    /\ WF_vars(CoordinatorStep)
    /\ ([]<>(InFlight = {}) \/ []<><<PostEnds>>_vars)

(***************************************************************************)
(* SpecPartition: the partition arithmetic on its own, for every record    *)
(* count and batch size of the bounds, and for the 163/50 case of the      *)
(* test script.                                                            *)
(***************************************************************************)
PartitionInputs ==
    ((0..MaxAuctionCount) \X (1..MaxBatchSize)) \cup {<<163, 50>>}

InitPartition ==
    /\ pc = "partition"
    /\ \E in \in PartitionInputs :
          /\ auction_count = in[1]
          /\ batch_size = in[2]
    /\ batch_requests = <<>>
    /\ variant = "threadpool"
    /\ pdf = <<>>
    /\ in_intake = TRUE
    /\ enable_processing = TRUE
    /\ max_tokens = 100000
    /\ fail_extract = {}
    /\ fail_upload = {}
    /\ takes_err = FALSE
    /\ fault_batches = {}
    /\ fault_kind = "none"
    /\ lookup_fault = "none"
    /\ sink = EmptyBag
    /\ lookup = NoLookup
    /\ bstate = <<>>
    /\ thread_result = <<>>
    /\ served = <<>>
    /\ batch_results = <<>>
    /\ result = NoResult
    /\ sink0 = sink
    /\ NoLoop
    /\ NoArchive
    /\ NoStaging

\* the batch_requests loop of process_pdf_with_parallel_batches
Partition ==
    /\ pc = "partition"
    /\ batch_requests' = make_batch_requests(auction_count, batch_size, {})
    /\ pc' = "partitioned"
    /\ UNCHANGED <<envVars, sink, auction_count, lookup, bstate,
                   thread_result, served, batch_results, result>>

NextPartition == Partition

SpecPartition == InitPartition /\ [][NextPartition]_vars

(***************************************************************************)
(* SpecBatch: the record loops step by step, for one batch request to the  *)
(* batch worker (process-auction-batch.py) and for one document of the     *)
(* sequential handler (webhook-process.py), over every Extractor and Sink  *)
(* failure pattern of a batch of up to MaxBatchRecords records.            *)
(***************************************************************************)
\* the text both handlers work on
loop_text == clean_text(raw_text(pdf))

\* the case number of the block at position i of the batch
KeyAt(i) == BlockKey(loop_text, batch_auctions[i])

InitBatch ==
    /\ pc \in {"batch_received", "single_received"}
    /\ variant = "threadpool"
    /\ pdf \in {<<>>} \cup {<<Plain(j)>> : j \in 1..MaxBatchRecords}
    /\ in_intake \in BOOLEAN
    /\ enable_processing = TRUE
    /\ max_tokens = 100000
    /\ fail_extract \in SUBSET (1..RunsLen(pdf))
    /\ fail_upload \in SUBSET (1..RunsLen(pdf))
    /\ takes_err \in BOOLEAN
    /\ NoFaults
    /\ sink = EmptyBag
    /\ sink0 = sink
    /\ auction_count = RunsLen(pdf)
    /\ batch_size = MaxBatchRecords
    /\ \E first \in 1..2 :
          batch_requests = <<[batch_number |-> 1, start_auction |-> first,
                              end_auction |-> MaxBatchRecords,
                              existing_case_numbers |-> {}]>>
    /\ lookup = NoLookup
    /\ bstate = <<>>
    /\ thread_result = <<>>
    /\ served = <<>>
    /\ batch_results = <<>>
    /\ result = NoResult
    /\ NoLoop
    /\ NoArchive
    /\ NoStaging

\* worker do_POST: auctions = self.extract_auctions_from_pdf(...); an empty
\* slice is answered 400
WorkerExtract ==
    /\ pc = "batch_received"
    /\ batch_auctions' = extract_auctions_from_pdf(pdf, in_intake,
                                                   batch_requests[1].start_auction,
                                                   batch_requests[1].end_auction)
    /\ IF batch_auctions' = <<>>
       THEN /\ result' = [code |-> 400, status |-> "error",
                          auctions_processed |-> 0, auctions_uploaded |-> 0]
            /\ pc' = "batch_done"
       ELSE /\ pc' = "extracting"
            /\ UNCHANGED result
    /\ UNCHANGED <<coordVars, sink, batch_requests, loop_i, processed_auctions,
                   upload_results, loop_state>>

\* one iteration of "for i, auction_text in enumerate(auctions)" of
\* process_auctions_with_openai
ExtractRecord ==
    /\ pc = "extracting"
    /\ loop_i <= Len(batch_auctions)
    /\ LET entry == process_one_auction(loop_text, batch_auctions[loop_i], loop_i,
                                        fail_extract)
           next == next_auction(loop_i, Len(batch_auctions), entry.kind = "error")
       IN  /\ processed_auctions' = Append(processed_auctions, entry)
           /\ IF next > Len(batch_auctions)
              THEN /\ pc' = "uploading"
                   /\ loop_i' = 1
              ELSE /\ loop_i' = next
                   /\ UNCHANGED pc
    /\ UNCHANGED <<coordVars, sink, batch_requests, batch_auctions, upload_results,
                   loop_state, result>>

\* one iteration of "for auction_data in processed_auctions" of
\* upload_to_supabase
UploadRecord ==
    /\ pc = "uploading"
    /\ loop_i <= Len(processed_auctions)
    /\ LET up == upload_one(processed_auctions[loop_i], fail_upload, takes_err)
           next == next_auction(loop_i, Len(processed_auctions), up.status = "error")
       IN  /\ upload_results' = Append(upload_results, up)
           /\ sink' = IF up.status = "success" THEN sink (+) SetToBag({up.row}) ELSE sink
           /\ IF next > Len(processed_auctions)
              THEN /\ pc' = "responding"
                   /\ loop_i' = 1
              ELSE /\ loop_i' = next
                   /\ UNCHANGED pc
    /\ UNCHANGED <<coordVars, batch_requests, batch_auctions, processed_auctions,
                   loop_state, result>>

\* worker do_POST: the 200 answer with the counts
WorkerRespond ==
    /\ pc = "responding"
    /\ result' = [code |-> 200, status |-> "success",
                  auctions_processed |-> Len(processed_auctions),
                  auctions_uploaded |-> Len(UploadedRows(upload_results))]
    /\ pc' = "batch_done"
    /\ UNCHANGED <<coordVars, sink, batch_requests, loopVars>>

\* process_single_pdf: the download and the split; a failed download ends the
\* handler with an error result
SingleSplit ==
    /\ pc = "single_received"
    /\ IF in_intake
       THEN /\ batch_auctions' = split_into_auctions(loop_text, MatchesPrefixed)
            /\ pc' = "single_loop"
            /\ UNCHANGED result
       ELSE /\ result' = [status |-> "error", auctions_found |-> 0,
                          auctions_processed |-> 0]
            /\ pc' = "single_done"
            /\ UNCHANGED batch_auctions
    /\ UNCHANGED <<coordVars, sink, batch_requests, loop_i, processed_auctions,
                   upload_results, loop_state>>

\* one iteration of "for i, auction_text in enumerate(batch_auctions, 1)" of
\* process_single_pdf, with the token check that ends every slice
SingleRecord ==
    /\ pc = "single_loop"
    /\ loop_i <= Len(batch_auctions)
    /\ LET next_state == single_pdf_record(loop_state, KeyAt(loop_i), fail_extract,
                                           fail_upload, takes_err)
           failed == Len(next_state.failed) > Len(loop_state.failed)
       IN  /\ loop_state' = next_state
           /\ sink' = sink (+) SeqToBag(SubSeq(next_state.written,
                                               Len(loop_state.written) + 1,
                                               Len(next_state.written)))
           /\ loop_i' = IF /\ loop_i % AUCTION_BATCH_SIZE = 0
                           /\ next_state.total_tokens_used > max_tokens
                        THEN Len(batch_auctions) + 1
                        ELSE next_auction(loop_i, Len(batch_auctions), failed)
    /\ UNCHANGED <<pc, coordVars, batch_requests, batch_auctions, processed_auctions,
                   upload_results, result>>

\* process_single_pdf: the result after the loop
SingleRespond ==
    /\ pc = "single_loop"
    /\ loop_i > Len(batch_auctions)
    /\ result' = [status |-> "success", auctions_found |-> Len(batch_auctions),
                  auctions_processed |-> loop_state.processed_count]
    /\ pc' = "single_done"
    /\ UNCHANGED <<coordVars, sink, batch_requests, loopVars>>

NextBatch ==
    \/ WorkerExtract
    \/ ExtractRecord
    \/ UploadRecord
    \/ WorkerRespond
    \/ SingleSplit
    \/ SingleRecord
    \/ SingleRespond

SpecBatch == InitBatch /\ [][NextBatch]_vars

(***************************************************************************)
(* SpecSegment: the segmentation on its own, on each path that segments a  *)
(* document, for every text of up to MaxTextLen paragraphs.  Every          *)
(* paragraph is a notice of more than 100 characters.                      *)
(***************************************************************************)
\* the openings matched by r'Case No:\s*[A-Z]?\d+(?:\/\d+)?' with IGNORECASE:
\* at most one letter, digits, "/digits" optional (webhook-receive-v2)
MatchesReceive == {"plain", "prefixed", "noslash"}

\* webhook-receive-v2: re.sub(r'\s+', ' ', raw_text), then
\* re.sub(r'(\d+)\s+(\d+)', r'\1\2', text): white space is collapsed and
\* digit groups that a blank separates are joined; no paragraph is removed
\* and no opening changes
receive_clean_text(text) == [i \in 1..Len(text) |-> [m |-> text[i].m, k |-> text[i].k]]

\* webhook-receive-v2: "for i, match in enumerate(matches)": block i is
\* text[match.start() : next match's start or len(text)], kept when it is
\* longer than 100 characters; with no match there is no block
receive_split(text) ==
    LET matches == MatchPositions(text, MatchesReceive)
        n == Len(matches)
    IN  [j \in 1..n |->
            [first |-> matches[j],
             last |-> IF j < n THEN matches[j + 1] - 1 ELSE Len(text),
             dup |-> FALSE]]

\* process.py: process_single_pdf calls split_into_auctions(raw_text) on the
\* text as extracted (clean_text is applied to each block afterwards); the
\* pattern is r'(?=(Case No:\s*\d+(?:/\d+)?))', and the header of every block
\* matches the case number search, so no block is left out
process_split_into_auctions(text) == split_into_auctions(text, MatchesPlain)

\* the texts explored: every sequence of up to MaxTextLen paragraphs
SegmentTexts ==
    UNION {[1..len -> {[m |-> o, n |-> 1] : o \in Openings}] : len \in 0..MaxTextLen}

SegmentPaths == {"seg_sequential", "seg_analysis", "seg_worker", "seg_legacy",
                 "seg_receive"}

InitSegment ==
    /\ pc \in SegmentPaths
    /\ pdf \in SegmentTexts
    /\ auction_count = 0
    /\ batch_size = BATCH_SIZE
    /\ batch_requests = <<>>
    /\ variant = "threadpool"
    /\ in_intake = TRUE
    /\ enable_processing = TRUE
    /\ max_tokens = 100000
    /\ fail_extract = {}
    /\ fail_upload = {}
    /\ takes_err = FALSE
    /\ NoFaults
    /\ sink = EmptyBag
    /\ lookup = NoLookup
    /\ bstate = <<>>
    /\ thread_result = <<>>
    /\ served = <<>>
    /\ batch_results = <<>>
    /\ result = NoResult
    /\ sink0 = sink
    /\ NoLoop
    /\ NoArchive
    /\ NoStaging

\* webhook-process.py process_single_pdf: auctions = split_into_auctions(cleaned_text)
SegmentSequential ==
    /\ pc = "seg_sequential"
    /\ batch_auctions' = split_into_auctions(clean_text(raw_text(pdf)), MatchesPrefixed)
    /\ auction_count' = Len(batch_auctions')
    /\ pc' = "segmented_sequential"
    /\ UNCHANGED <<coordVarsButCount, sink, batch_requests, loop_i, processed_auctions,
                   upload_results, loop_state, result>>

\* webhook-coordinator.py analyze_pdf_for_batching: auction_count = len(matches)
SegmentAnalysis ==
    /\ pc = "seg_analysis"
    /\ auction_count' = analyze_pdf_for_batching(pdf, in_intake).auction_count
    /\ pc' = "segmented_analysis"
    /\ UNCHANGED <<coordVarsButCount, sink, batch_requests, loopVars, result>>

\* process-auction-batch.py extract_auctions_from_pdf: all_auctions =
\* split_into_auctions(cleaned_text)
SegmentWorker ==
    /\ pc = "seg_worker"
    /\ batch_auctions' = worker_all_auctions(pdf)
    /\ auction_count' = Len(batch_auctions')
    /\ pc' = "segmented_worker"
    /\ UNCHANGED <<coordVarsButCount, sink, batch_requests, loop_i, processed_auctions,
                   upload_results, loop_state, result>>

\* process.py process_single_pdf: auctions = split_into_auctions(raw_text)
SegmentLegacy ==
    /\ pc = "seg_legacy"
    /\ batch_auctions' = process_split_into_auctions(raw_text(pdf))
    /\ auction_count' = Len(batch_auctions')
    /\ pc' = "segmented_legacy"
    /\ UNCHANGED <<coordVarsButCount, sink, batch_requests, loop_i, processed_auctions,
                   upload_results, loop_state, result>>

\* webhook-receive-v2.py do_POST, stage 1.3
SegmentReceive ==
    /\ pc = "seg_receive"
    /\ batch_auctions' = receive_split(receive_clean_text(raw_text(pdf)))
    /\ auction_count' = Len(batch_auctions')
    /\ pc' = "segmented_receive"
    /\ UNCHANGED <<coordVarsButCount, sink, batch_requests, loop_i, processed_auctions,
                   upload_results, loop_state, result>>

NextSegment ==
    \/ SegmentSequential
    \/ SegmentAnalysis
    \/ SegmentWorker
    \/ SegmentLegacy
    \/ SegmentReceive

SpecSegment == InitSegment /\ [][NextSegment]_vars

(***************************************************************************)
(* SpecArchive: one document through a handler that archives it, step by   *)
(* step over the storage calls: webhook-process.py do_POST (processing,    *)
(* then upload_and_cleanup_pdf), process.py process_single_pdf (processing, *)
(* then move_pdf_in_r2 to processed/ or errors/) and process-manual.py      *)
(* (its stub, then move_pdf_to_processed).  storage_fault names the one     *)
(* storage call that fails.                                                *)
(***************************************************************************)
\* process.py process_single_pdf up to the move: the ENABLE_PROCESSING check,
\* the fetch, the split of the raw text and the record loop.  Any exception
\* before the loop leaves success False; in the loop a record counts as
\* processed when its extraction gave data, and as uploaded when the insert
\* returned data.
process_py_single_pdf(runs, present, enable, failx, failu) ==
    LET text == raw_text(runs)
        all == process_split_into_auctions(text)
        auctions == SubSeq(all, 1, Min(Len(all), MAX_AUCTIONS_PER_RUN))
        extracted == SelectSeq(auctions, LAMBDA blk : BlockKey(text, blk) \notin failx)
        stored == SelectSeq(extracted, LAMBDA blk : BlockKey(text, blk) \notin failu)
    IN  IF ~enable \/ ~present \/ Len(text) = 0
        THEN [success |-> FALSE, auctions_found |-> 0, auctions_processed |-> 0,
              auctions_uploaded |-> 0, written |-> <<>>]
        ELSE [success |-> TRUE, auctions_found |-> Len(all),
              auctions_processed |-> Len(extracted),
              auctions_uploaded |-> Len(stored),
              written |-> [i \in 1..Len(stored) |-> AuctionRow(BlockKey(text, stored[i]))]]

\* attach_storage_cleanup with an archive failure turned into a failed result
attach_storage_cleanup_failing(res, storage_result) ==
    [res EXCEPT !.storage_cleanup = storage_result,
                !.status = IF storage_result = "uploaded_to_supabase_and_deleted_from_r2"
                           THEN @ ELSE "error"]

\* result['storage_cleanup'] = storage_result (result['move_result'] in
\* process-manual.py): the outcome of the archiving is one more entry of the
\* result; nothing else of the result changes
attach_storage_cleanup(res, storage_result) ==
    [res EXCEPT !.storage_cleanup = storage_result]

\* upload_and_cleanup_pdf deleting whether or not the upload succeeded
delete_after_upload_always(storage_success) == TRUE

\* "if storage_result.get('success'):" the document is deleted from
\* unprocessed/ only when the upload to the archive storage succeeded
delete_after_upload(storage_success) == storage_success

ArchivePdfs == {<<>>} \cup {<<Plain(j)>> : j \in 1..MaxBatchRecords}

StorageFaults == {"none", "download", "upload", "copy", "delete"}

\* the variables no step of SpecArchive changes
archFrame == <<variant, pdf, enable_processing, max_tokens, fail_extract, fail_upload,
               takes_err, fault_batches, fault_kind, batch_size, sink0, lookup_fault,
               auction_count, lookup, bstate, thread_result, served, batch_results,
               batch_requests, loopVars, storage_fault, stageVars>>

InitArchive ==
    /\ pc \in {"wp_received", "lp_received", "pm_received"}
    /\ pdf \in ArchivePdfs
    /\ in_intake \in BOOLEAN
    /\ enable_processing \in BOOLEAN
    /\ storage_fault \in StorageFaults
    /\ archived = {}
    /\ max_tokens = 100000
    /\ fail_extract \in SUBSET (1..RunsLen(pdf))
    /\ fail_upload \in {{}, {1}}
    /\ takes_err = FALSE
    /\ fault_batches = {}
    /\ fault_kind = "none"
    /\ lookup_fault = "none"
    /\ variant = "threadpool"
    /\ sink = EmptyBag
    /\ sink0 = sink
    /\ auction_count = 0
    /\ batch_size = BATCH_SIZE
    /\ batch_requests = <<>>
    /\ lookup = NoLookup
    /\ bstate = <<>>
    /\ thread_result = <<>>
    /\ served = <<>>
    /\ batch_results = <<>>
    /\ result = NoResult
    /\ NoLoop
    /\ NoStaging

\* webhook-process.py do_POST: result = process_single_pdf(pdf_key, ...);
\* upload_and_cleanup_pdf is called only when the status is success
WebhookProcess ==
    /\ pc = "wp_received"
    /\ LET r == process_single_pdf(pdf, in_intake, enable_processing, max_tokens,
                                   AUCTION_BATCH_SIZE, fail_extract, fail_upload,
                                   takes_err)
       IN  /\ result' = [status |-> r.status,
                         auctions_found |-> r.auctions_found,
                         auctions_processed |-> r.auctions_processed,
                         calls |-> r.calls,
                         storage_cleanup |-> "none"]
           /\ sink' = sink (+) SeqToBag(r.written)
           /\ pc' = IF r.status = "success" THEN "wp_download" ELSE "wp_done"
    /\ UNCHANGED <<archFrame, in_intake, archived>>

\* upload_and_cleanup_pdf: list_objects_v2 and get_object of the document;
\* an exception ends the function with action upload_and_cleanup_error
ArchiveDownload ==
    /\ pc = "wp_download"
    /\ IF in_intake /\ storage_fault # "download"
       THEN /\ pc' = "wp_upload"
            /\ UNCHANGED result
       ELSE /\ pc' = "wp_done"
            /\ result' = attach_storage_cleanup(result, "upload_and_cleanup_error")
    /\ UNCHANGED <<archFrame, in_intake, archived, sink>>

\* upload_and_cleanup_pdf: upload_pdf_to_supabase_storage, which returns
\* success False for any failure; then the document is kept in unprocessed/
ArchiveUpload ==
    /\ pc = "wp_upload"
    /\ LET storage_success == storage_fault # "upload"
       IN  /\ archived' = IF storage_success THEN archived \cup {"supabase"}
                          ELSE archived
           /\ IF delete_after_upload(storage_success)
              THEN /\ pc' = "wp_delete"
                   /\ UNCHANGED result
              ELSE /\ pc' = "wp_done"
                   /\ result' = attach_storage_cleanup(result, "supabase_upload_failed")
    /\ UNCHANGED <<archFrame, in_intake, sink>>

\* upload_and_cleanup_pdf: r2_client.delete_object on unprocessed/; an
\* exception ends the function with action upload_and_cleanup_error
ArchiveDelete ==
    /\ pc = "wp_delete"
    /\ IF storage_fault # "delete"
       THEN /\ in_intake' = FALSE
            /\ result' = attach_storage_cleanup(result,
                              "uploaded_to_supabase_and_deleted_from_r2")
       ELSE /\ UNCHANGED in_intake
            /\ result' = attach_storage_cleanup(result, "upload_and_cleanup_error")
    /\ pc' = "wp_done"
    /\ UNCHANGED <<archFrame, archived, sink>>

\* process.py process_single_pdf up to the move
LegacyProcess ==
    /\ pc = "lp_received"
    /\ LET r == process_py_single_pdf(pdf, in_intake, enable_processing,
                                      fail_extract, fail_upload)
       IN  /\ result' = [status |-> IF r.success THEN "success" ELSE "error",
                         auctions_found |-> r.auctions_found,
                         auctions_processed |-> r.auctions_processed,
                         calls |-> <<>>,
                         storage_cleanup |-> "none"]
           /\ sink' = sink (+) SeqToBag(r.written)
    /\ pc' = "lp_copy"
    /\ UNCHANGED <<archFrame, in_intake, archived>>

\* move_pdf_in_r2: copy_object to processed/ after a success, to errors/
\* after an exception; an exception of the copy is caught and ends the move
LegacyCopy ==
    /\ pc = "lp_copy"
    /\ IF in_intake /\ storage_fault # "copy"
       THEN /\ archived' = archived \cup
                               {IF result.status = "success" THEN "processed" ELSE "errors"}
            /\ pc' = "lp_delete"
       ELSE /\ pc' = "lp_done"
            /\ UNCHANGED archived
    /\ UNCHANGED <<archFrame, in_intake, sink, result>>

\* move_pdf_in_r2: delete_object of the source key
LegacyDelete ==
    /\ pc = "lp_delete"
    /\ in_intake' = (in_intake /\ storage_fault = "delete")
    /\ pc' = "lp_done"
    /\ UNCHANGED <<archFrame, archived, sink, result>>

\* process-manual.py process_specific_pdf: its process_single_pdf is a stub
\* that returns status success; the move follows
ManualProcess ==
    /\ pc = "pm_received"
    /\ result' = [status |-> "success", auctions_found |-> 0, auctions_processed |-> 0,
                  calls |-> <<>>, storage_cleanup |-> "none"]
    /\ pc' = "pm_copy"
    /\ UNCHANGED <<archFrame, in_intake, archived, sink>>

\* move_pdf_to_processed: copy_object to processed/
ManualCopy ==
    /\ pc = "pm_copy"
    /\ IF in_intake /\ storage_fault # "copy"
       THEN /\ archived' = archived \cup {"processed"}
            /\ pc' = "pm_delete"
            /\ UNCHANGED result
       ELSE /\ pc' = "pm_done"
            /\ result' = attach_storage_cleanup(result, "move_failed")
            /\ UNCHANGED archived
    /\ UNCHANGED <<archFrame, in_intake, sink>>

\* move_pdf_to_processed: delete_object of unprocessed/
ManualDelete ==
    /\ pc = "pm_delete"
    /\ IF storage_fault # "delete"
       THEN /\ in_intake' = FALSE
            /\ result' = attach_storage_cleanup(result, "moved")
       ELSE /\ UNCHANGED in_intake
            /\ result' = attach_storage_cleanup(result, "move_failed")
    /\ pc' = "pm_done"
    /\ UNCHANGED <<archFrame, archived, sink>>

NextArchive ==
    \/ WebhookProcess
    \/ ArchiveDownload
    \/ ArchiveUpload
    \/ ArchiveDelete
    \/ LegacyProcess
    \/ LegacyCopy
    \/ LegacyDelete
    \/ ManualProcess
    \/ ManualCopy
    \/ ManualDelete

SpecArchive == InitArchive /\ [][NextArchive]_vars

(***************************************************************************)
(* SpecEndpoints: one POST request to each endpoint, from the check of the *)
(* request's 'secret' on.  webhook-receive-v2.py is followed over its      *)
(* staging loop (put_object under auction-batches/, then the trigger       *)
(* request to process-auction-batch); webhook-coordinator.py,              *)
(* batch-coordinator.py and webhook-process.py up to the point where the   *)
(* run of Spec or SpecArchive begins; process-auction-batch.py and         *)
(* process.py over the whole request.                                      *)
(***************************************************************************)
\* the answer of an endpoint that turns the request away: 401 with
\* {'error': 'Unauthorized'} (send_error(403) in webhook-receive-v2)
Unauthorized(code) ==
    [code |-> code, status |-> "unauthorized", batch_number |-> 0,
     auctions_processed |-> 0, auctions_uploaded |-> 0, written |-> <<>>,
     first_block |-> 1, last_block |-> 0]

\* do_POST of process-auction-batch from the secret check on:
\* "if batch_data.get('secret') != webhook_secret" answers 401 and returns
\* before anything else is read
worker_request(secret_matches, runs, present, req, failx, failu, errs) ==
    IF ~secret_matches THEN Unauthorized(401)
    ELSE worker_do_POST(runs, present, req, failx, failu, errs)

\* requests.post(process_url, json={'batch_id': batch_id}, timeout=2): the
\* trigger payload has no 'secret' entry, so batch_data.get('secret') is None
\* at the worker and differs from the configured secret
trigger_secret_matches == FALSE

\* batches = [auctions[i:i + BATCH_SIZE] for i in range(0, len(auctions),
\* BATCH_SIZE)]: the staged batch with index b, as positions in auctions
staged_batch(b, count) ==
    [batch_id |-> b, batch_index |-> b,
     first |-> (b - 1) * RECEIVE_BATCH_SIZE + 1,
     last |-> Min(b * RECEIVE_BATCH_SIZE, count),
     auction_count |-> Min(b * RECEIVE_BATCH_SIZE, count) - (b - 1) * RECEIVE_BATCH_SIZE]

\* batch-monitor.py: every object under auction-batches/ is reported as a
\* pending batch (status pending below five minutes of age, stale above)
pending_batches == staging

\* the documents sent to webhook-receive-v2: none, and documents of
\* 1..MaxStagedBatches batches, the last marker letter-prefixed in one
ReceivePdfs ==
    {<<>>}
    \cup {<<Plain(RECEIVE_BATCH_SIZE * (j - 1) + 1)>> : j \in 1..MaxStagedBatches}
    \cup {<<Plain(RECEIVE_BATCH_SIZE), [m |-> "prefixed", n |-> 1]>>}

EndpointEntries == {"rv_post", "wc_post", "bc_post", "wk_post", "wp_post", "lp_post"}

\* the variables no step of the endpoints changes
endFrame == <<variant, pdf, enable_processing, max_tokens, fail_extract, fail_upload,
              takes_err, fault_batches, fault_kind, batch_size, sink0, lookup_fault,
              lookup, batch_results, loopVars, archVars, secret_ok>>

InitEndpoints ==
    /\ pc \in EndpointEntries
    /\ secret_ok \in BOOLEAN
    /\ in_intake \in BOOLEAN
    /\ IF pc = "rv_post"
       THEN /\ pdf \in ReceivePdfs
            /\ \/ NoFaults
               \/ /\ fault_kind \in {"request_timeout", "exception"}
                  /\ fault_batches \in {{1}, 1..(MaxStagedBatches + 1)}
            /\ fail_extract = {}
       ELSE /\ pdf \in ArchivePdfs
            /\ NoFaults
            /\ fail_extract \in {{}, {1}}
    /\ enable_processing \in BOOLEAN
    /\ variant = (IF pc = "bc_post" THEN "asyncio" ELSE "threadpool")
    /\ max_tokens = 100000
    /\ fail_upload = {}
    /\ takes_err = FALSE
    /\ lookup_fault = "none"
    /\ sink = EmptyBag
    /\ sink0 = sink
    /\ auction_count = 0
    /\ batch_size = BATCH_SIZE
    /\ batch_requests = <<>>
    /\ lookup = NoLookup
    /\ bstate = <<>>
    /\ thread_result = <<>>
    /\ served = <<>>
    /\ batch_results = <<>>
    /\ result = NoResult
    /\ staging = {}
    /\ NoLoop
    /\ NoArchive

\* webhook-receive-v2 do_POST up to the staging loop: the secret check, the
\* download, the cleaning, the split and the slicing into batches of 25.  An
\* exception of the download is caught per document.
ReceivePost ==
    /\ pc = "rv_post"
    /\ IF ~secret_ok
       THEN /\ result' = [status |-> "unauthorized", code |-> 403]
            /\ pc' = "rv_done"
            /\ UNCHANGED <<auction_count, batch_requests, bstate, thread_result, served>>
       ELSE IF ~in_intake
       THEN /\ result' = [status |-> "error", code |-> 200]
            /\ pc' = "rv_done"
            /\ UNCHANGED <<auction_count, batch_requests, bstate, thread_result, served>>
       ELSE LET auctions == receive_split(receive_clean_text(raw_text(pdf)))
                n == num_batches(Len(auctions), RECEIVE_BATCH_SIZE)
            IN  /\ auction_count' = Len(auctions)
                /\ batch_requests' = [b \in 1..n |-> staged_batch(b, Len(auctions))]
                /\ bstate' = [b \in 1..n |-> "created"]
                /\ thread_result' = [b \in 1..n |-> NoResult]
                /\ served' = [b \in 1..n |-> NoResult]
                /\ result' = NoResult
                /\ pc' = "rv_staging"
    /\ UNCHANGED <<endFrame, in_intake, sink, staging>>

\* the staging loop, first half of an iteration: r2_client.put_object of the
\* batch under auction-batches/<batch_id>.json
StageBatch(b) ==
    /\ pc = "rv_staging"
    /\ bstate[b] = "created"
    /\ \A j \in 1..(b - 1) : bstate[j] \in {"queued", "triggered", "trigger_failed"}
    /\ staging' = staging \cup {batch_requests[b].batch_id}
    /\ bstate' = [bstate EXCEPT ![b] = "staged"]
    /\ UNCHANGED <<endFrame, pc, in_intake, sink, auction_count, batch_requests,
                   thread_result, served, result>>

\* the staging loop, second half: the trigger request.  An answer of any
\* status within the timeout gives 'queued', requests.Timeout 'triggered',
\* any other exception 'trigger_failed'; the worker runs the request it
\* received
TriggerBatch(b) ==
    /\ pc = "rv_staging"
    /\ bstate[b] = "staged"
    /\ LET kind == IF b \in fault_batches THEN fault_kind ELSE "none"
           outcome == IF kind = "request_timeout" THEN "triggered"
                      ELSE IF kind = "exception" THEN "trigger_failed"
                      ELSE "queued"
           resp == worker_request(trigger_secret_matches, pdf, in_intake,
                                  [batch_number |-> 1, start_auction |-> 1,
                                   end_auction |-> 25],
                                  fail_extract, fail_upload, takes_err)
       IN  /\ bstate' = [bstate EXCEPT ![b] = outcome]
           /\ thread_result' = [thread_result EXCEPT ![b] = [status |-> outcome]]
           /\ IF outcome = "trigger_failed"
              THEN UNCHANGED <<served, sink>>
              ELSE /\ served' = [served EXCEPT ![b] = resp]
                   /\ sink' = sink (+) SeqToBag(resp.written)
    /\ UNCHANGED <<endFrame, pc, in_intake, staging, auction_count, batch_requests,
                   result>>

\* after the loop: the entry of the document in all_results and the answer
ReceiveRespond ==
    /\ pc = "rv_staging"
    /\ \A b \in Batches : bstate[b] \in {"queued", "triggered", "trigger_failed"}
    /\ result' = [status |-> "success", code |-> 200,
                  auctions_found |-> auction_count,
                  batches_created |-> Len(batch_requests)]
    /\ pc' = "rv_done"
    /\ UNCHANGED <<endFrame, in_intake, sink, staging, auction_count, batch_requests,
                   bstate, thread_result, served>>

\* webhook-coordinator.py and batch-coordinator.py do_POST: the secret check;
\* an accepted request goes on with the run that starts at "received"
CoordinatorPost ==
    /\ pc \in {"wc_post", "bc_post"}
    /\ IF ~secret_ok
       THEN /\ result' = [status |-> "unauthorized", code |-> 401]
            /\ pc' = "rejected"
       ELSE /\ UNCHANGED result
            /\ pc' = "received"
    /\ UNCHANGED <<endFrame, in_intake, sink, staging, auction_count, batch_requests,
                   bstate, thread_result, served>>

\* webhook-process.py do_POST: the secret check; an accepted request goes on
\* with process_single_pdf
SequentialPost ==
    /\ pc = "wp_post"
    /\ IF ~secret_ok
       THEN /\ result' = [status |-> "unauthorized", code |-> 401]
            /\ pc' = "rejected"
       ELSE /\ UNCHANGED result
            /\ pc' = "wp_received"
    /\ UNCHANGED <<endFrame, in_intake, sink, staging, auction_count, batch_requests,
                   bstate, thread_result, served>>

\* process-auction-batch.py do_POST for a request that carries pdf_file and
\* batch_info (the coordinators' payload)
WorkerPost ==
    /\ pc = "wk_post"
    /\ LET resp == worker_request(secret_ok, pdf, in_intake,
                                  [batch_number |-> 1, start_auction |-> 1,
                                   end_auction |-> BATCH_SIZE],
                                  fail_extract, fail_upload, takes_err)
       IN  /\ result' = [status |-> resp.status, code |-> resp.code,
                         auctions_processed |-> resp.auctions_processed]
           /\ sink' = sink (+) SeqToBag(resp.written)
           /\ pc' = IF resp.code = 401 THEN "rejected" ELSE "wk_done"
    /\ UNCHANGED <<endFrame, in_intake, staging, auction_count, batch_requests,
                   bstate, thread_result, served>>

\* process.py process_pdfs (route /api/process, methods POST and GET): the
\* request body is not read and no secret is compared; process_single_pdf
\* is called for the document
LegacyPost ==
    /\ pc = "lp_post"
    /\ pc' = "lp_received"
    /\ UNCHANGED <<endFrame, in_intake, sink, staging, auction_count, batch_requests,
                   bstate, thread_result, served, result>>

\* the steps of webhook-receive-v2
ReceiveStep ==
    \/ ReceivePost
    \/ \E b \in Batches : StageBatch(b)
    \/ \E b \in Batches : TriggerBatch(b)
    \/ ReceiveRespond

NextEndpoints ==
    \/ ReceiveStep
    \/ CoordinatorPost
    \/ SequentialPost
    \/ WorkerPost
    \/ LegacyPost
    \/ LegacyProcess
    \/ LegacyCopy
    \/ LegacyDelete

\* the handler of webhook-receive-v2 runs its loop to the end
SpecEndpoints == InitEndpoints /\ [][NextEndpoints]_vars /\ WF_vars(ReceiveStep)

(***************************************************************************)
(* C1                                                                      *)
(***************************************************************************)
\* the least k with k * size >= count, i.e. ceil(count / size)
CeilDiv(count, size) ==
    CHOOSE k \in 0..count : k * size >= count /\ \A j \in 0..(k - 1) : j * size < count

BatchOrdinals(req) == req.start_auction .. req.end_auction

\* C1: once the partition is made there are ceil(N/batchSize) batches, batch k
\* has the range [(k-1)*batchSize+1, min(k*batchSize, N)], every ordinal 1..N
\* lies in exactly one batch, consecutive batches are contiguous, and the last
\* batch has between 1 and batchSize records.
C1_PartitionCoverage ==
    pc = "partitioned" =>
        LET n == Len(batch_requests) IN
        /\ n = CeilDiv(auction_count, batch_size)
        /\ \A k \in 1..n :
              /\ batch_requests[k].batch_number = k
              /\ batch_requests[k].start_auction = (k - 1) * batch_size + 1
              /\ batch_requests[k].end_auction = Min(k * batch_size, auction_count)
        /\ \A o \in 1..auction_count :
              Cardinality({k \in 1..n : o \in BatchOrdinals(batch_requests[k])}) = 1
        /\ \A k \in 1..n : BatchOrdinals(batch_requests[k]) \subseteq 1..auction_count
        /\ \A k \in 1..(n - 1) :
              batch_requests[k + 1].start_auction = batch_requests[k].end_auction + 1
        /\ n > 0 =>
              /\ Cardinality(BatchOrdinals(batch_requests[n])) >= 1
              /\ Cardinality(BatchOrdinals(batch_requests[n])) <= batch_size

\* witness: the 163-record document at batch size 50 is cut into 50, 50, 50, 13
C1_Witness ==
    /\ pc = "partitioned"
    /\ auction_count = 163
    /\ batch_size = 50
    /\ Len(batch_requests) = 4
    /\ [k \in 1..4 |-> Cardinality(BatchOrdinals(batch_requests[k]))] = <<50, 50, 50, 13>>

(***************************************************************************)
(* C2                                                                      *)
(***************************************************************************)
\* the blocks of its own segmentation the worker worked on for batch b
WorkerBlocks(b) == served[b].first_block .. served[b].last_block

\* the case number at the coordinator's j-th record-start marker
CoordinatorKey(j) ==
    LET text == clean_text(raw_text(pdf))
    IN  text[MatchPositions(text, MatchesPrefixed)[j]].k

\* the case number of the j-th block of the worker's segmentation
WorkerKey(j) == BlockKey(worker_text(pdf), worker_all_auctions(pdf)[j])

\* C2: for every batch the worker has served, the worker processes exactly the
\* blocks with the ordinals start_auction..end_auction as the coordinator
\* counted them: as many as end_auction - start_auction + 1, each beginning
\* at the coordinator's marker of that ordinal; and once every batch is
\* served each block of the document is processed by exactly one batch.
C2_WorkerProcessesCoordinatorRange ==
    /\ \A b \in Batches :
          served[b] # NoResult =>
              /\ Cardinality(WorkerBlocks(b)) =
                    batch_requests[b].end_auction - batch_requests[b].start_auction + 1
              /\ \A j \in WorkerBlocks(b) : WorkerKey(j) = CoordinatorKey(j)
    /\ (pc = "done" /\ Batches # {} /\ \A b \in Batches : served[b] # NoResult) =>
          \A j \in 1..Len(worker_all_auctions(pdf)) :
              Cardinality({b \in Batches : j \in WorkerBlocks(b)}) = 1

(***************************************************************************)
(* C3                                                                      *)
(***************************************************************************)
\* C3: at every moment of a dispatch, in the thread-pool and in the asyncio
\* coordinator, at most MAX_WORKERS (5) batches are in flight.
C3_AtMostMaxWorkersInFlight ==
    Cardinality(InFlight) <= MAX_WORKERS

(***************************************************************************)
(* C4                                                                      *)
(***************************************************************************)
\* every record of batch b fails extraction
AllRecordsFailExtraction(b) ==
    LET blocks == PySlice(worker_all_auctions(pdf), batch_requests[b].start_auction,
                          batch_requests[b].end_auction)
    IN  /\ blocks # <<>>
        /\ \A i \in 1..Len(blocks) : BlockKey(worker_text(pdf), blocks[i]) \in fail_extract

\* C4: when a dispatch without transport faults is done, a batch whose every
\* record failed extraction has the outcome status error.
C4_AllFailedBatchIsError ==
    (pc = "done" /\ Batches # {} /\ fault_batches = {}) =>
        \A b \in Batches :
            AllRecordsFailExtraction(b) => batch_results[b].status = "error"

(***************************************************************************)
(* C5                                                                      *)
(***************************************************************************)
\* the entry batch b's own worker answer gives; it depends on the document,
\* the batch's range and the collaborators only, not on any other batch
OwnOutcome(b) ==
    batch_result_of(worker_do_POST(pdf, in_intake, batch_requests[b],
                                   fail_extract, fail_upload, takes_err))

\* C5: no entry is ever recorded as cancelled, and when a dispatch is done
\* every batch has run to its end and every batch without a transport fault
\* of its own was served by the worker and has the outcome of its own worker
\* answer recorded, which is its outcome in the run without any fault.
C5_SiblingsUnaffected ==
    /\ \A i \in 1..Len(batch_results) : batch_results[i].cause # "cancelled"
    /\ (pc = "done" /\ Batches # {}) =>
          /\ \A b \in Batches : bstate[b] = "finished"
          /\ \A b \in Batches \ fault_batches :
                /\ served[b] # NoResult
                /\ batch_results[b] = OwnOutcome(b)

\* witness: the POST of batch 1 raised an exception, and batches 2 and 3
\* were served and recorded as successes
C5_Witness ==
    /\ pc = "done"
    /\ fault_batches = {1}
    /\ fault_kind = "exception"
    /\ Len(batch_results) >= 3
    /\ batch_results[1].status = "error"
    /\ batch_results[2].status = "success"
    /\ batch_results[3].status = "success"
    /\ served[2] # NoResult

(***************************************************************************)
(* C6                                                                      *)
(***************************************************************************)
\* the worker has gone through the extraction loop
ExtractionLoopOver ==
    \/ pc \in {"uploading", "responding"}
    \/ pc = "batch_done" /\ result.code = 200

\* the worker has gone through the upload loop
UploadLoopOver ==
    \/ pc = "responding"
    \/ pc = "batch_done" /\ result.code = 200

TimedOut(b) == batch_results[b].cause \in {"request_timeout", "future_timeout"}

\* C7: when a dispatch is done, a batch that ran into the per-batch timeout
\* has the outcome status timeout, and the records the worker completed for
\* it are counted in its outcome.
C7_TimeoutStatusAndCounts ==
    (pc = "done" /\ Batches # {}) =>
        \A b \in Batches :
            TimedOut(b) =>
                /\ batch_results[b].status = "timeout"
                /\ served[b] # NoResult =>
                      batch_results[b].auctions_processed = served[b].auctions_uploaded

(***************************************************************************)
(* C8                                                                      *)
(***************************************************************************)
\* C8: when the sequential handler is done with a document of more records
\* than the quota ceiling max_tokens, at most max_tokens + MAX_WORKERS - 1
\* records were extracted successfully and no Extractor call was made after
\* the ceiling was reached.
C8_QuotaCeiling ==
    (/\ pc = "done"
     /\ result.method = "sequential"
     /\ result.status = "success"
     /\ enable_processing
     /\ result.auctions_found > max_tokens) =>
        /\ result.total_tokens_used <= max_tokens + MAX_WORKERS - 1
        /\ \A i \in 1..Len(result.calls) :
              Cardinality({j \in 1..(i - 1) : result.calls[j] \notin fail_extract})
                  < max_tokens + MAX_WORKERS - 1

(***************************************************************************)
(* C9                                                                      *)
(***************************************************************************)
\* C9: for every batch the worker has served, a block of the batch's range is
\* worked on (sent to the Extractor and the Sink) iff its case number is not
\* among the case numbers the Sink held when the run began.
C9_SkippedIffExisting ==
    \A b \in Batches :
        served[b] # NoResult =>
            \A j \in batch_requests[b].start_auction ..
                     Min(batch_requests[b].end_auction, Len(worker_all_auctions(pdf))) :
                j \in WorkerBlocks(b) <=> WorkerKey(j) \notin SinkKeys(sink0)

(***************************************************************************)
(* C10                                                                     *)
(***************************************************************************)
\* the case numbers at the coordinator's record-start markers
CoordinatorKeys ==
    LET text == clean_text(raw_text(pdf))
        found == MatchPositions(text, MatchesPrefixed)
    IN  {text[found[i]].k : i \in 1..Len(found)}

\* C10: once the thread-pool coordinator has prepared the batches, the
\* existing-keys lookup was sent to the Sink, keyed on exactly the case
\* numbers at the coordinator's record-start markers.
C10_LookupKeyedOnDocumentKeys ==
    (pc \in {"dispatching", "done"} /\ variant = "threadpool" /\ Batches # {}) =>
        /\ lookup.sent
        /\ lookup.keys = CoordinatorKeys

(***************************************************************************)
(* C11                                                                     *)
(***************************************************************************)
\* C11: when the existing-keys lookup of the thread-pool coordinator fails,
\* the run goes on: the lookup yields the empty set, the batches of the whole
\* partition are prepared with no key to skip, and when the run is done it
\* has the result of the dispatch, every batch was dispatched and served, and
\* the worker worked on every block of each batch's slice.
C11_LookupFailureGoesOn ==
    (variant = "threadpool" /\ lookup_fault # "none"
        /\ auction_count > SEQUENTIAL_LIMIT /\ pc \in {"dispatching", "done"}) =>
        /\ lookup.existing = {}
        /\ batch_requests = make_batch_requests(auction_count, batch_size, {})
        /\ pc = "done" =>
              /\ result.method = "parallel"
              /\ "batches_total" \in DOMAIN result
              /\ result.batches_total = num_batches(auction_count, batch_size)
              /\ \A b \in Batches :
                    /\ bstate[b] = "finished"
                    /\ served[b] # NoResult
                    /\ Cardinality(WorkerBlocks(b)) =
                          Len(PySlice(worker_all_auctions(pdf),
                                      batch_requests[b].start_auction,
                                      batch_requests[b].end_auction))

\* witness: the lookup raised for a document of two batches some of whose
\* records the Sink already holds, and both batches were served
C11_Witness ==
    /\ pc = "done"
    /\ variant = "threadpool"
    /\ lookup_fault = "exception"
    /\ sink0 # EmptyBag
    /\ Len(batch_results) = 2
    /\ batch_results[1].status = "success"
    /\ batch_results[2].status = "success"

(***************************************************************************)
(* C12                                                                     *)
(***************************************************************************)
\* C12: the Sink holds at most one row per natural key: a record whose row
\* the Sink already holds from an earlier processing of the document is not
\* there twice after the document is processed again.
C12_OneRowPerKey ==
    \A row \in BagToSet(sink) : CopiesIn(row, sink) <= 1

(***************************************************************************)
(* C13                                                                     *)
(***************************************************************************)
\* the number of record-start markers the analysis finds in the document
DocumentCount ==
    Len(MatchPositions(clean_text(raw_text(pdf)), MatchesPrefixed))

\* C13: a run whose analysis succeeded is on exactly one path, the sequential
\* one iff the document has at most 50 records and the parallel dispatch iff
\* it has more: batches exist only for a count above 50, and the result of a
\* finished run is that of the sequential handler iff the count is at most 50
\* and that of the dispatch iff it is above 50.
C13_StrategyByCount ==
    /\ Batches # {} => DocumentCount > SEQUENTIAL_LIMIT
    /\ pc = "dispatching" => DocumentCount > SEQUENTIAL_LIMIT
    /\ (pc = "done" /\ in_intake) =>
          /\ result.method \in {"sequential", "parallel"}
          /\ result.method = "sequential" <=> DocumentCount <= SEQUENTIAL_LIMIT
          /\ result.method = "parallel" <=> DocumentCount > SEQUENTIAL_LIMIT
          /\ result.method = "sequential" => Batches = {}
          /\ result.method = "parallel" =>
                /\ Batches # {}
                /\ Len(batch_results) = Len(batch_requests)

\* witness: a document of exactly 50 records went the sequential path
C13_Witness ==
    /\ pc = "done"
    /\ DocumentCount = SEQUENTIAL_LIMIT
    /\ result.method = "sequential"
    /\ result.auctions_found = SEQUENTIAL_LIMIT

(***************************************************************************)
(* C14                                                                     *)
(***************************************************************************)
\* C14: a run goes from the fetch and segmentation (pc "received") over the
\* choice of the path (pc "analyzed") to the sequential handler or to the
\* partition and dispatch (pc "dispatching") and the aggregation, and ends
\* (pc "done").  Before the segmentation has finished nothing was written to
\* the Sink, no batch exists and no result is set; batches are in flight only
\* while dispatching; and a run that ends as failed (status error) has failed
\* in the fetch or the segmentation.
C14_StateMachine ==
    /\ pc \in {"received", "analyzed", "dispatching", "done"}
    /\ pc \in {"received", "analyzed"} =>
          /\ sink = sink0
          /\ Batches = {}
          /\ result = NoResult
    /\ pc = "dispatching" =>
          /\ auction_count = DocumentCount
          /\ result = NoResult
    /\ InFlight # {} => pc = "dispatching"
    /\ (pc = "done" /\ result.status = "error") => result.method = "analysis"

(***************************************************************************)
(* C15                                                                     *)
(***************************************************************************)
\* C15: when the download of the document fails, the run ends at once with
\* the status error of the analysis: the run never gets past the analysis,
\* nothing is written to the Sink, no batch is prepared or started, and no
\* worker or record handler is called.
C15_FetchFailureAborts ==
    ~in_intake =>
        /\ pc \in {"received", "done"}
        /\ sink = sink0
        /\ batch_requests = <<>>
        /\ Batches = {}
        /\ InFlight = {}
        /\ batch_results = <<>>
        /\ pc = "done" => result = [status |-> "error", method |-> "analysis"]

C15_Witness ==
    /\ ~in_intake
    /\ pc = "done"
    /\ DocumentCount > SEQUENTIAL_LIMIT
    /\ result.status = "error"

(***************************************************************************)
(* C16                                                                     *)
(***************************************************************************)
\* C16: a document that was downloaded and whose text is empty has no record,
\* and the handler that processed it, the batch worker or the sequential
\* handler, ends with the status success (never error), with zero records
\* processed and nothing written to the Sink.
C16_EmptyDocumentSucceeds ==
    (/\ in_intake
     /\ raw_text(pdf) = <<>>
     /\ pc \in {"batch_done", "single_done"}) =>
        /\ result.status = "success"
        /\ result.auctions_processed = 0
        /\ sink = sink0

(***************************************************************************)
(* C17                                                                     *)
(***************************************************************************)
\* C17: the run of a document that was downloaded and segmented ends with the
\* status success whatever records or batches failed: the failures are the
\* error entries of the batch results and the counts of the result, and when
\* batches were dispatched the result counts every one of them.
C17_FailuresStayInReport ==
    (pc = "done" /\ in_intake) =>
        /\ result.status = "success"
        /\ result.method = "parallel" =>
              /\ result.batches_total = Len(batch_requests)
              /\ result.batches_successful =
                    Cardinality({b \in Batches : batch_results[b].status = "success"})

(***************************************************************************)
(* C18                                                                     *)
(***************************************************************************)
\* the records whose row is in the Sink: extracted and written
RecordsWritten == {row \in BagToSet(sink) : row.kind = "auction"}

\* C18: in the report of a handler that ended with success, the number of
\* records counted as processed is the number of records that were both
\* extracted and written to the Sink, it is at most the number of records
\* found, and the records found that are not counted as processed are the
\* ones that failed.
C18_ProcessedMeansExtractedAndWritten ==
    (pc \in {"batch_done", "single_done"} /\ result.status = "success") =>
        /\ result.auctions_processed = Cardinality(RecordsWritten)
        /\ result.auctions_processed <= Len(batch_auctions)
        /\ pc = "single_done" =>
              result.auctions_found =
                  result.auctions_processed + Len(loop_state.failed)
        /\ pc = "batch_done" =>
              /\ result.auctions_uploaded <= result.auctions_processed
              /\ Len(batch_auctions) - result.auctions_processed =
                    Cardinality({i \in 1..Len(batch_auctions) :
                                    \/ processed_auctions[i].kind = "error"
                                    \/ upload_results[i].status = "error"})

(***************************************************************************)
(* C19                                                                     *)
(***************************************************************************)
\* C19: at every moment the batch results collected so far are in ascending
\* order of batch_number and the entry at position i is the one of batch i,
\* whatever order the batches finish in; when the dispatch is done there is
\* one entry per batch, and the entry of a batch without a transport fault
\* is the outcome of that batch's own worker answer.
C19_ResultsInBatchOrder ==
    /\ Len(batch_results) <= Len(batch_requests)
    /\ \A i \in 1..Len(batch_results) : batch_results[i].batch_number = i
    /\ \A i, j \in 1..Len(batch_results) :
          i < j => batch_results[i].batch_number < batch_results[j].batch_number
    /\ (pc = "done" /\ Batches # {}) =>
          /\ Len(batch_results) = Len(batch_requests)
          /\ \A b \in Batches \ fault_batches : batch_results[b] = OwnOutcome(b)

\* witness: batch 2 has finished and its entry is collected at position 2
\* while batch 1, collected before it, is still not finished
C19_Witness ==
    /\ variant = "threadpool"
    /\ pc = "dispatching"
    /\ Len(batch_results) >= 2
    /\ bstate[1] # "finished"
    /\ bstate[2] = "finished"
    /\ batch_results[1].batch_number = 1
    /\ batch_results[2].batch_number = 2
    /\ batch_results[2].status = "success"

(***************************************************************************)
(* C20                                                                     *)
(***************************************************************************)
\* C20: nothing is done a second time within a run.  A batch that was started
\* is never queued or started again: from running it only goes to finished,
\* and once finished it stays so with its outcome and its worker run as they
\* are.  The blocks the workers worked on for different batches are disjoint,
\* the sequential handler sends every case number to the Extractor at most
\* once, and the run adds at most one row per record to the Sink.
C20_NoRetry ==
    /\ [](/\ \A row \in BagToSet(sink) :
                row.kind = "auction" =>
                    CopiesIn(row, sink) <= CopiesIn(row, sink0) + 1
          /\ \A b, c \in Batches :
                (b < c /\ served[b] # NoResult /\ served[c] # NoResult) =>
                    served[b].last_block < served[c].first_block
          /\ (pc = "done" /\ result.status = "success"
                          /\ result.method = "sequential") =>
                \A i, j \in 1..Len(result.calls) :
                    i # j => result.calls[i] # result.calls[j])
    /\ [][\A b \in Batches :
             /\ bstate[b] = "running" => bstate'[b] \in {"running", "finished"}
             /\ bstate[b] = "finished" =>
                   /\ bstate'[b] = "finished"
                   /\ thread_result'[b] = thread_result[b]
                   /\ served'[b] = served[b]]_vars

\* witness: the POST of batch 1 raised an exception; the run is over, the
\* batch was not sent again and no worker ever ran for it
C20_Witness ==
    /\ pc = "done"
    /\ fault_kind = "exception"
    /\ 1 \in fault_batches
    /\ Len(batch_results) >= 2
    /\ batch_results[1].cause = "exception"
    /\ served[1] = NoResult
    /\ bstate[1] = "finished"

(***************************************************************************)
(* C21                                                                     *)
(***************************************************************************)
\* the text a path of SpecSegment segments, and the pattern it segments with
SegmentedText ==
    IF pc \in {"seg_legacy", "segmented_legacy"} THEN raw_text(pdf)
    ELSE IF pc \in {"seg_receive", "segmented_receive"}
         THEN receive_clean_text(raw_text(pdf))
         ELSE clean_text(raw_text(pdf))

SegmentPattern ==
    IF pc \in {"seg_sequential", "segmented_sequential",
               "seg_analysis", "segmented_analysis"} THEN MatchesPrefixed
    ELSE IF pc \in {"seg_receive", "segmented_receive"} THEN MatchesReceive
         ELSE MatchesPlain

\* the record-start markers of the text, as the path's own pattern finds them
SegmentMarkers == MatchPositions(SegmentedText, SegmentPattern)

\* C21: when the text has m >= 2 record-start markers, the sequential
\* handler, the batch worker and webhook-receive-v2 segment it into exactly m
\* non-empty blocks in text order, and the blocks put one after the other are
\* the text: the first block begins where the text begins, every block begins
\* where the one before it ends, the last block ends where the text ends, and
\* no block holds anything the text does not hold at that place.
C21_SegmentationPartitionsText ==
    (/\ pc \in {"segmented_sequential", "segmented_worker", "segmented_receive"}
     /\ Len(SegmentMarkers) >= 2) =>
        /\ Len(batch_auctions) = Len(SegmentMarkers)
        /\ \A j \in 1..Len(batch_auctions) :
              /\ batch_auctions[j].first <= batch_auctions[j].last
              /\ ~batch_auctions[j].dup
              /\ j > 1 => batch_auctions[j].first = batch_auctions[j - 1].last + 1
        /\ batch_auctions[1].first = 1
        /\ batch_auctions[Len(batch_auctions)].last = Len(SegmentedText)

(***************************************************************************)
(* C22                                                                     *)
(***************************************************************************)
\* C22: when a non-empty text has no or one record-start marker, the
\* sequential handler, process.py and webhook-receive-v2 segment it into
\* exactly one block, and the block is the whole text.
C22_FallbackIsWholeText ==
    (/\ pc \in {"segmented_sequential", "segmented_legacy", "segmented_receive"}
     /\ Len(SegmentMarkers) <= 1
     /\ Len(SegmentedText) > 0) =>
        batch_auctions = <<[first |-> 1, last |-> Len(SegmentedText), dup |-> FALSE]>>

(***************************************************************************)
(* C23                                                                     *)
(***************************************************************************)
\* C23: on every path (sequential handler, coordinator analysis, batch
\* worker, process.py, webhook-receive-v2) a letter-prefixed marker begins a
\* record like a plain one: a text of two or more records, each opening with
\* a plain or a letter-prefixed marker, is counted and segmented into one
\* record per marker, and every block is one record.
C23_PrefixedMarkerIsBoundary ==
    (/\ pc \in {"segmented_sequential", "segmented_analysis", "segmented_worker",
                "segmented_legacy", "segmented_receive"}
     /\ Len(pdf) >= 2
     /\ \A i \in 1..Len(pdf) : pdf[i].m \in {"plain", "prefixed"}) =>
        /\ auction_count = Len(pdf)
        /\ pc # "segmented_analysis" =>
              /\ Len(batch_auctions) = Len(pdf)
              /\ \A j \in 1..Len(batch_auctions) :
                    /\ batch_auctions[j].first = j
                    /\ batch_auctions[j].last = j

(***************************************************************************)
(* C24                                                                     *)
(***************************************************************************)
\* what process_single_pdf of webhook-process.py gives for the document when
\* it is under unprocessed/, whatever the archiving does afterwards
ProcessingOutcome ==
    process_single_pdf(pdf, TRUE, enable_processing, max_tokens, AUCTION_BATCH_SIZE,
                       fail_extract, fail_upload, takes_err)

\* C24: when the archiving of a processed document fails (the download for
\* the archive, the upload to the archive storage or the removal from
\* unprocessed/), the document's result keeps the status success and the
\* record counts of the processing, and the Sink holds what the processing
\* wrote; the failure is the storage_cleanup entry of the result only.
C24_ArchiveFailureKeepsResult ==
    (/\ pc = "wp_done"
     /\ result.storage_cleanup \in {"upload_and_cleanup_error", "supabase_upload_failed"}) =>
        /\ result.status = "success"
        /\ result.auctions_found = ProcessingOutcome.auctions_found
        /\ result.auctions_processed = ProcessingOutcome.auctions_processed
        /\ sink = sink0 (+) SeqToBag(ProcessingOutcome.written)

\* witness: a record was processed and written, and the upload to the
\* archive storage failed
C24_Witness ==
    /\ pc = "wp_done"
    /\ storage_fault = "upload"
    /\ result.storage_cleanup = "supabase_upload_failed"
    /\ result.status = "success"
    /\ result.auctions_processed >= 1

(***************************************************************************)
(* C25                                                                     *)
(***************************************************************************)
\* C25: every batch that was queued for dispatch eventually starts, and every
\* dispatch eventually ends with exactly one collected outcome per batch:
\* as many entries as batches, the entry at position b being the one of
\* batch b, whatever the batches ended in.
C25_DispatchTerminates ==
    (pc = "dispatching" /\ \E b \in Batches : bstate[b] = "queued")
        ~> (/\ pc = "done"
            /\ Len(batch_results) = Len(batch_requests)
            /\ \A b \in Batches :
                  /\ bstate[b] = "finished"
                  /\ thread_result[b] # NoResult
                  /\ batch_results[b].batch_number = b)

\* witness: a dispatch of three batches has ended; the POST of batch 1 ran
\* into its timeout, batches 2 and 3 succeeded, and there is one entry for each
C25_Witness ==
    /\ pc = "done"
    /\ variant = "threadpool"
    /\ fault_kind = "request_timeout"
    /\ fault_batches = {1}
    /\ Len(batch_requests) = 3
    /\ Len(batch_results) = 3
    /\ batch_results[1].cause = "request_timeout"
    /\ batch_results[2].status = "success"
    /\ batch_results[3].status = "success"

(***************************************************************************)
(* C26                                                                     *)
(***************************************************************************)
\* C26: every batch that webhook-receive-v2 staged and triggered is
\* eventually accepted and processed by the worker (answer 200), and is then
\* no longer among the pending batches of the batch monitor.
C26_StagedBatchIsProcessed ==
    \A b \in 1..MaxStagedBatches :
        (/\ b \in Batches
         /\ b \in staging
         /\ bstate[b] \in {"queued", "triggered"})
            ~> (/\ b \in Batches
                /\ served[b] # NoResult
                /\ served[b].code = 200
                /\ b \notin pending_batches)

(***************************************************************************)
(* C27                                                                     *)
(***************************************************************************)
\* process-complete.py, the upload step of do_GET: "if enable_processing",
\* then for every entry "if 'error' not in auction_data" the entry is posted;
\* one upload result per posted entry
complete_upload(processed, enable, failu, errs) ==
    LET sendable == SelectSeq(processed, LAMBDA row : row.kind # "error")
    IN  IF enable
        THEN [i \in 1..Len(sendable) |-> upload_one(sendable[i], failu, errs)]
        ELSE <<>>

\* the records an upload step sent to the Sink, in order
PostedRows(results) == [i \in 1..Len(results) |-> results[i].row]

\* C27: for the same processed auctions the worker's upload step sends the
\* records that the upload step of process-complete.py sends, and neither
\* sends an ERROR_<n> placeholder.
C27_UploadStepsAgree ==
    pc = "batch_done" /\ result.code = 200 =>
        /\ PostedRows(upload_results)
               = PostedRows(complete_upload(processed_auctions, enable_processing,
                                            fail_upload, takes_err))
        /\ \A i \in 1..Len(upload_results) : upload_results[i].row.kind # "error"

(***************************************************************************)
(* C28                                                                     *)
(***************************************************************************)
\* C28: the document is removed from the intake location only in a state in
\* which an archive location already holds a copy, and no copy is lost, so
\* a document that was in the intake is always in one of the two places.
C28_RemovedOnlyAfterArchived ==
    [][/\ (in_intake /\ ~in_intake' => archived # {})
       /\ archived \subseteq archived']_vars

\* the document has been removed from the intake after its archiving, with
\* a failed storage call on another path of the same family
C28_Witness ==
    /\ pc \in {"wp_done", "lp_done", "pm_done"}
    /\ ~in_intake
    /\ archived # {}

(***************************************************************************)
(* C29                                                                     *)
(***************************************************************************)
\* C29: with processing disabled no step of a run writes to the Sink, and no
\* step archives, moves or deletes the document: it stays as it was in the
\* intake location.
C29_DisabledRunLeavesDocument ==
    [][~enable_processing =>
          /\ sink' = sink
          /\ in_intake' = in_intake
          /\ archived' = archived]_vars

(***************************************************************************)
(* C30                                                                     *)
(***************************************************************************)
\* C30: a request whose secret is not the configured one makes no endpoint
\* work: nothing is written to the Sink, no batch is prepared or staged, and
\* the document is neither copied nor removed.
C30_WrongSecretDoesNoWork ==
    [][~secret_ok =>
          /\ sink' = sink
          /\ staging' = staging
          /\ batch_requests' = batch_requests
          /\ archived' = archived
          /\ in_intake' = in_intake]_vars
====
